---- MODULE Spec2Model ----
(***************************************************************************)
(* A model of go-forwarder: the rule language and its evaluator, the       *)
(* routing table with hot reload, the request dispatch of the server       *)
(* frontend, the outbound request of the forwarder, the CONNECT tunnel and *)
(* the shutdown of watcher and server.                                     *)
(*                                                                         *)
(* Go strings are modelled as sequences of one-character strings, so that  *)
(* indexing, slicing, prefix and suffix tests are computed as the code     *)
(* computes them.  Positions are 0-based as in Go: byte i of s is s[i+1].  *)
(***************************************************************************)
EXTENDS Integers, Sequences, FiniteSets, TLC

VARIABLES
    \* ---- router.Router / server.Server / main / config.Watcher
    heap,       \* backing arrays of the route slices ever built, by generation
    routes,     \* Router.routes: the slice header (data pointer, length)
    rmu,        \* Router.mu: [writer: BOOLEAN, readers: set of Match callers]
    srvConfig,  \* Server.config
    cfg,        \* main's cfg variable, captured by the onChange closure
    logger,     \* the global logger settings installed by InitLogger
    file,       \* the content of the configuration file
    events,     \* fsnotify events queued for Watcher.watch
    wpc,        \* where the watcher goroutine is inside watch/reload
    wl,         \* locals of the reload in progress
    stopped,    \* Watcher.stopped
    stopRets,   \* what the calls of Watcher.Stop returned, in order
    rd,         \* the Match callers: position and locals of each
    \* ---- Server.ServeHTTP and the three handlers
    sv,         \* the request being served: position, handler calls, response
    \* ---- Server.handleConnect / connectThroughProxy
    ct,         \* one CONNECT request through an upstream proxy
    \* ---- Server.Stop
    stop,       \* the shutdown: position of Stop, its result
    \* ---- one call of a pure function: its input and its result
    pf,
    \* ---- the relay of handleConnect / handleWebSocket
    rl,         \* the copy goroutines, errCh, the connections and their peers
    \* ---- forwarder.Forwarder
    fc,         \* Forwarder.clients and the getClient calls in progress
    \* ---- forwarder.Server
    servers     \* Server.servers: the http.Servers made by Start, each with its listener

routerVars == <<heap, routes, rmu, srvConfig, cfg, logger, file, events, wpc, wl, stopped, stopRets, rd, servers>>
serveVars == <<sv>>
connVars == <<ct>>
vars == <<heap, routes, rmu, srvConfig, cfg, logger, file, events, wpc, wl, stopped, stopRets, rd, sv, ct, stop, pf, rl, fc, servers>>

(***************************************************************************)
(* Strings                                                                 *)
(***************************************************************************)
Empty == << >>

Min(a, b) == IF a <= b THEN a ELSE b

\* s[i:j] of Go, 0-based, j exclusive
Slice(s, i, j) == IF j <= i THEN Empty ELSE SubSeq(s, i + 1, j)

\* strings.HasPrefix
HasPrefix(s, p) == Len(p) <= Len(s) /\ SubSeq(s, 1, Len(p)) = p

\* strings.HasSuffix
HasSuffix(s, p) == Len(p) <= Len(s) /\ SubSeq(s, Len(s) - Len(p) + 1, Len(s)) = p

\* strings.Index(s, c) for a one-byte c: the first 0-based position, or -1
IndexByte(s, c) ==
    IF \E i \in 1..Len(s) : s[i] = c
    THEN (CHOOSE i \in 1..Len(s) : s[i] = c /\ \A j \in 1..(i - 1) : s[j] # c) - 1
    ELSE -1

LowerLetters == <<"a","b","c","d","e","f","g","h","i","j","k","l","m","n","o","p","q","r","s","t","u","v","w","x","y","z">>
UpperLetters == <<"A","B","C","D","E","F","G","H","I","J","K","L","M","N","O","P","Q","R","S","T","U","V","W","X","Y","Z">>

UpperChar(c) ==
    IF \E i \in 1..26 : LowerLetters[i] = c
    THEN UpperLetters[CHOOSE i \in 1..26 : LowerLetters[i] = c]
    ELSE c

LowerChar(c) ==
    IF \E i \in 1..26 : UpperLetters[i] = c
    THEN LowerLetters[CHOOSE i \in 1..26 : UpperLetters[i] = c]
    ELSE c

\* strings.ToUpper
ToUpper(s) == [i \in 1..Len(s) |-> UpperChar(s[i])]

\* the bytes strings.TrimSpace removes (of the bytes the model uses)
IsSpace(c) == c \in {" ", "\t", "\n", "\r"}

\* strings.TrimSpace
TrimSpace(s) ==
    LET keep == {i \in 1..Len(s) : ~IsSpace(s[i])}
    IN  IF keep = {} THEN Empty
        ELSE SubSeq(s, CHOOSE i \in keep : \A j \in keep : i <= j,
                       CHOOSE i \in keep : \A j \in keep : j <= i)

\* strings.Split(s, sep) for a one-byte sep
RECURSIVE Split(_, _)
Split(s, sep) ==
    LET i == IndexByte(s, sep)
    IN  IF i = -1 THEN <<s>>
        ELSE <<Slice(s, 0, i)>> \o Split(Slice(s, i + 1, Len(s)), sep)

\* strings.SplitN(s, sep, 2) for a one-byte sep
SplitN2(s, sep) ==
    LET i == IndexByte(s, sep)
    IN  IF i = -1 THEN <<s>>
        ELSE <<Slice(s, 0, i), Slice(s, i + 1, Len(s))>>

\* textproto.CanonicalMIMEHeaderKey, which http.Header.Get applies to the key:
\* the first letter and every letter after a hyphen in upper case, the rest lower
CanonicalKey(k) ==
    [i \in 1..Len(k) |->
        IF i = 1 \/ k[i - 1] = "-" THEN UpperChar(k[i]) ELSE LowerChar(k[i])]

\* http.Header.Get: the first value of the canonical key, "" when absent.
\* A header map is a function from canonical keys to the sequence of values.
HeaderGet(h, k) ==
    LET ck == CanonicalKey(k)
    IN  IF ck \in DOMAIN h /\ Len(h[ck]) > 0 THEN h[ck][1] ELSE Empty

\* url.Values.Get on the parsed query: a function from keys to value sequences
QueryGet(q, k) == IF k \in DOMAIN q /\ Len(q[k]) > 0 THEN q[k][1] ELSE Empty

(***************************************************************************)
(* Matchers (package matchers) and rules (package router)                  *)
(*                                                                         *)
(* A request is a record [method, host, urlHost, path, header, query,     *)
(* rawQuery, tls]                                                         *)
(* A rule is a record tagged by kind.                                      *)
(***************************************************************************)
HostMatcher(pattern) == [kind |-> "Host", pattern |-> pattern]
PathMatcher(path) == [kind |-> "Path", path |-> path]
PathPrefixMatcher(prefix) == [kind |-> "PathPrefix", prefix |-> prefix]
MethodMatcher(methods) == [kind |-> "Method", methods |-> methods]
HeaderMatcher(key, value) == [kind |-> "Header", key |-> key, value |-> value]
HeaderRegexMatcher(key, pattern) == [kind |-> "HeaderRegex", key |-> key, pattern |-> pattern]
QueryMatcher(key, value) == [kind |-> "Query", key |-> key, value |-> value]
AndRule(left, right) == [kind |-> "And", left |-> left, right |-> right]
OrRule(left, right) == [kind |-> "Or", left |-> left, right |-> right]
NotRule(inner) == [kind |-> "Not", inner |-> inner]
NilRule == [kind |-> "nil"]

HostMatch(m, req) ==
    LET h0 == IF req.host = Empty THEN req.urlHost ELSE req.host
        idx == IndexByte(h0, ":")
        host == IF idx # -1 THEN Slice(h0, 0, idx) ELSE h0
    IN  IF m.pattern = host THEN TRUE
        ELSE IF HasPrefix(m.pattern, <<"*", ".">>)
             THEN LET domain == Slice(m.pattern, 2, Len(m.pattern))
                  IN  HasSuffix(host, <<".">> \o domain) \/ host = domain
             ELSE FALSE

PathMatch(m, req) == req.path = m.path

PathPrefixMatch(m, req) == HasPrefix(req.path, m.prefix)

\* a Match that compares the methods as they are written
MethodMatchExact(m, req) ==
    \E i \in 1..Len(m.methods) : m.methods[i] = req.method

MethodMatch(m, req) ==
    \E i \in 1..Len(m.methods) : ToUpper(m.methods[i]) = ToUpper(req.method)

HeaderMatch(m, req) == HeaderGet(req.header, m.key) = m.value

\* regexp.Regexp.MatchString for the patterns the model compiles: a literal,
\* optionally anchored by a leading ^ and a trailing $
RegexpMatchString(re, s) ==
    LET a0 == Len(re) > 0 /\ re[1] = "^"
        r1 == IF a0 THEN Slice(re, 1, Len(re)) ELSE re
        a1 == Len(r1) > 0 /\ r1[Len(r1)] = "$"
        lit == IF a1 THEN Slice(r1, 0, Len(r1) - 1) ELSE r1
    IN  \E i \in 0..(Len(s) - Len(lit)) :
            /\ Slice(s, i, i + Len(lit)) = lit
            /\ a0 => i = 0
            /\ a1 => i + Len(lit) = Len(s)

HeaderRegexMatch(m, req) ==
    LET headerValue == HeaderGet(req.header, m.key)
    IN  IF headerValue = Empty THEN FALSE ELSE RegexpMatchString(m.pattern, headerValue)

QueryMatch(m, req) == QueryGet(req.query, m.key) = m.value

\* Rule.Match, dispatched on the dynamic type of the rule
RECURSIVE RuleMatch(_, _)
RuleMatch(rule, req) ==
    CASE rule.kind = "Host" -> HostMatch(rule, req)
      [] rule.kind = "Path" -> PathMatch(rule, req)
      [] rule.kind = "PathPrefix" -> PathPrefixMatch(rule, req)
      [] rule.kind = "Method" -> MethodMatch(rule, req)
      [] rule.kind = "Header" -> HeaderMatch(rule, req)
      [] rule.kind = "HeaderRegex" -> HeaderRegexMatch(rule, req)
      [] rule.kind = "Query" -> QueryMatch(rule, req)
      [] rule.kind = "And" -> RuleMatch(rule.left, req) /\ RuleMatch(rule.right, req)
      [] rule.kind = "Or" -> RuleMatch(rule.left, req) \/ RuleMatch(rule.right, req)
      [] rule.kind = "Not" -> ~RuleMatch(rule.inner, req)

(***************************************************************************)
(* The rule parser (internal/router/parser.go)                             *)
(*                                                                         *)
(* Every parse function takes the input and the position p.pos and returns *)
(* [err, rule, pos]: the error flag, the rule built and the new p.pos.     *)
(***************************************************************************)
ParseOk(rule, pos) == [err |-> FALSE, rule |-> rule, pos |-> pos]
ParseErr(pos) == [err |-> TRUE, rule |-> NilRule, pos |-> pos]

\* parser.skipWhitespace: the position after the run of blanks at pos
RECURSIVE skipWhitespace(_, _)
skipWhitespace(input, pos) ==
    IF pos < Len(input) /\ input[pos + 1] \in {" ", "\t", "\n", "\r"}
    THEN skipWhitespace(input, pos + 1)
    ELSE pos

\* parser.matchChar
matchChar(input, pos, ch) == pos < Len(input) /\ input[pos + 1] = ch

\* parser.matchString
matchString(input, pos, s) ==
    pos + Len(s) <= Len(input) /\ Slice(input, pos, pos + Len(s)) = s

\* regexp.Compile succeeds: the model rejects unbalanced parentheses and
\* brackets and a leading repetition operator
RegexpCompiles(pattern) ==
    LET count(c) == Cardinality({i \in 1..Len(pattern) : pattern[i] = c})
    IN  /\ count("(") = count(")")
        /\ count("[") = count("]")
        /\ ~(Len(pattern) > 0 /\ pattern[1] \in {"*", "+", "?"})

\* parser.createMatcher
createMatcher(name, value, pos) ==
    CASE name = <<"H", "o", "s", "t">> -> ParseOk(HostMatcher(value), pos)
      [] name = <<"P", "a", "t", "h">> -> ParseOk(PathMatcher(value), pos)
      [] name = <<"P", "a", "t", "h", "P", "r", "e", "f", "i", "x">> ->
            ParseOk(PathPrefixMatcher(value), pos)
      [] name = <<"M", "e", "t", "h", "o", "d">> ->
            LET methods == Split(value, ",")
            IN  ParseOk(MethodMatcher([i \in 1..Len(methods) |-> TrimSpace(methods[i])]), pos)
      [] name = <<"H", "e", "a", "d", "e", "r">> ->
            LET parts == SplitN2(value, "=")
            IN  IF Len(parts) # 2 THEN ParseErr(pos)
                ELSE ParseOk(HeaderMatcher(TrimSpace(parts[1]), TrimSpace(parts[2])), pos)
      [] name = <<"H", "e", "a", "d", "e", "r", "R", "e", "g", "e", "x">> ->
            LET parts == SplitN2(value, "=")
            IN  IF Len(parts) # 2 THEN ParseErr(pos)
                ELSE IF ~RegexpCompiles(TrimSpace(parts[2])) THEN ParseErr(pos)
                ELSE ParseOk(HeaderRegexMatcher(TrimSpace(parts[1]), TrimSpace(parts[2])), pos)
      [] name = <<"Q", "u", "e", "r", "y">> ->
            LET parts == SplitN2(value, "=")
            IN  IF Len(parts) # 2 THEN ParseErr(pos)
                ELSE ParseOk(QueryMatcher(TrimSpace(parts[1]), TrimSpace(parts[2])), pos)
      [] OTHER -> ParseErr(pos)

\* the loop of parseMatcher that finds the end of the matcher name
RECURSIVE nameEnd(_, _)
nameEnd(input, pos) ==
    IF pos < Len(input) /\ input[pos + 1] # "{" /\ input[pos + 1] # " "
    THEN nameEnd(input, pos + 1)
    ELSE pos

\* the loop of parseMatcher that finds the closing brace: [pos, depth] at exit
RECURSIVE valueEnd(_, _, _)
valueEnd(input, pos, depth) ==
    IF pos < Len(input) /\ depth > 0
    THEN LET d == IF input[pos + 1] = "{" THEN depth + 1
                  ELSE IF input[pos + 1] = "}" THEN depth - 1
                  ELSE depth
         IN  valueEnd(input, IF d > 0 THEN pos + 1 ELSE pos, d)
    ELSE [pos |-> pos, depth |-> depth]

\* parseMatcherValue without the test for unmatched braces
parseMatcherValueAnyDepth(input, name, valueStart, e) ==
    createMatcher(name, Slice(input, valueStart, e.pos), e.pos + 1)

\* parser.parseMatcher from the value on: e is [pos, depth] at the exit of
\* the loop that looks for the closing brace
parseMatcherValue(input, name, valueStart, e) ==
    IF e.depth # 0 THEN ParseErr(e.pos)
    ELSE createMatcher(name, Slice(input, valueStart, e.pos), e.pos + 1)

\* parser.parseMatcher from the opening brace on, pos after the blanks that
\* follow the name
parseMatcherBrace(input, name, pos) ==
    IF ~matchChar(input, pos, "{") THEN ParseErr(pos)
    ELSE parseMatcherValue(input, name, pos + 1, valueEnd(input, pos + 1, 1))

\* parser.parseMatcher from the end of the name on
parseMatcherName(input, nameStart, pos) ==
    IF nameStart = pos THEN ParseErr(pos)
    ELSE parseMatcherBrace(input, Slice(input, nameStart, pos), skipWhitespace(input, pos))

\* parser.parseMatcher from the start of the name on
parseMatcherAt(input, nameStart) ==
    parseMatcherName(input, nameStart, nameEnd(input, nameStart))

\* parser.parseMatcher
parseMatcher(input, pos) == parseMatcherAt(input, skipWhitespace(input, pos))

RECURSIVE parseOr(_, _)
RECURSIVE parseOrLoop(_, _, _)
RECURSIVE parseAnd(_, _)
RECURSIVE parseAndLoop(_, _, _)
RECURSIVE parseUnary(_, _)

\* parser.parseUnary, the NOT branch after the recursive call
parseUnaryNot(inner) ==
    IF inner.err THEN inner ELSE ParseOk(NotRule(inner.rule), inner.pos)

\* parser.parseUnary, the parenthesis branch after the call of parseOr
parseUnaryParen(input, r) ==
    IF r.err THEN r
    ELSE IF ~matchChar(input, skipWhitespace(input, r.pos), ")")
         THEN ParseErr(skipWhitespace(input, r.pos))
         ELSE ParseOk(r.rule, skipWhitespace(input, r.pos) + 1)

\* parser.parseUnary at the position after the leading blanks
parseUnaryAt(input, pos) ==
    IF matchChar(input, pos, "!")
    THEN parseUnaryNot(parseUnary(input, skipWhitespace(input, pos + 1)))
    ELSE IF matchChar(input, pos, "(")
    THEN parseUnaryParen(input, parseOr(input, skipWhitespace(input, pos + 1)))
    ELSE parseMatcher(input, pos)

\* parser.parseUnary
parseUnary(input, pos) == parseUnaryAt(input, skipWhitespace(input, pos))

\* the for loop of parser.parseAnd after the right operand was parsed
parseAndRight(input, left, right) ==
    IF right.err THEN right
    ELSE parseAndLoop(input, AndRule(left, right.rule), skipWhitespace(input, right.pos))

\* the for loop of parser.parseAnd, pos after the blanks
parseAndLoop(input, left, pos) ==
    IF ~matchString(input, pos, <<"&", "&">>) THEN ParseOk(left, pos)
    ELSE parseAndRight(input, left, parseUnary(input, skipWhitespace(input, pos + 2)))

\* parser.parseAnd after the left operand was parsed
parseAndLeft(input, left) ==
    IF left.err THEN left
    ELSE parseAndLoop(input, left.rule, skipWhitespace(input, left.pos))

\* parser.parseAnd
parseAnd(input, pos) == parseAndLeft(input, parseUnary(input, pos))

\* the for loop of parser.parseOr after the right operand was parsed
parseOrRight(input, left, right) ==
    IF right.err THEN right
    ELSE parseOrLoop(input, OrRule(left, right.rule), skipWhitespace(input, right.pos))

\* parseOrLoop whose right operand is a unary expression: "&&" does not
\* bind tighter than "||"
parseOrLoopUnary(input, left, pos) ==
    IF ~matchString(input, pos, <<"|", "|">>) THEN ParseOk(left, pos)
    ELSE parseOrRight(input, left, parseUnary(input, skipWhitespace(input, pos + 2)))

\* the for loop of parser.parseOr, pos after the blanks
parseOrLoop(input, left, pos) ==
    IF ~matchString(input, pos, <<"|", "|">>) THEN ParseOk(left, pos)
    ELSE parseOrRight(input, left, parseAnd(input, skipWhitespace(input, pos + 2)))

\* parser.parseOr after the left operand was parsed
parseOrLeft(input, left) ==
    IF left.err THEN left
    ELSE parseOrLoop(input, left.rule, skipWhitespace(input, left.pos))

\* parser.parseOr
parseOr(input, pos) == parseOrLeft(input, parseAnd(input, pos))

\* router.ParseRule
ParseRule(ruleStr) == parseOr(TrimSpace(ruleStr), 0)

(***************************************************************************)
(* Configuration (internal/config)                                         *)
(*                                                                         *)
(* Config  = [server, logging, defaultProxy, services]                     *)
(* Service = [name, addr, handler, listener, nodes]                        *)
(* Node    = [name, addr, filter, matcher, proxy]                          *)
(* A nil *Filter or *Matcher is a record with present = FALSE.  A proxy    *)
(* URL is held as url.Parse returns it, [scheme, host]; the empty string   *)
(* is NoProxy.  Durations are in seconds.                                  *)
(***************************************************************************)
NoProxy == [scheme |-> "", host |-> Empty]
NilFilter == [present |-> FALSE, host |-> Empty]
NilMatcher == [present |-> FALSE, rule |-> Empty]
Filter(host) == [present |-> TRUE, host |-> host]
Matcher(rule) == [present |-> TRUE, rule |-> rule]

DefaultAddr == <<":", "2", "2", "2", "2", "2">>
DefaultReadTimeout == 30
DefaultWriteTimeout == 30
DefaultIdleTimeout == 120

\* config.validateProxyURL: TRUE when the URL is accepted
validateProxyURL(u) == u.scheme \in {"http", "https"} /\ u.host # Empty

\* validateNode without the two tests on filter and matcher together
validateNodeAnyShape(node) ==
    /\ node.name # ""
    /\ node.addr # Empty
    /\ ~(node.filter.present /\ node.filter.host = Empty)
    /\ ~(node.matcher.present /\ node.matcher.rule = Empty)
    /\ (node.proxy # NoProxy => validateProxyURL(node.proxy))

\* config.validateNode: TRUE when the node is accepted
validateNode(node) ==
    /\ node.name # ""
    /\ node.addr # Empty
    /\ ~(~node.filter.present /\ ~node.matcher.present)
    /\ ~(node.filter.present /\ node.matcher.present)
    /\ ~(node.filter.present /\ node.filter.host = Empty)
    /\ ~(node.matcher.present /\ node.matcher.rule = Empty)
    /\ (node.proxy # NoProxy => validateProxyURL(node.proxy))

\* config.validateService
validateService(svc) ==
    /\ svc.name # ""
    /\ svc.handler \in {"http", "tcp"}
    /\ svc.listener \in {"tcp"}
    /\ Len(svc.nodes) # 0
    /\ \A i \in 1..Len(svc.nodes) : validateNode(svc.nodes[i])

\* config.validateServerConfig
validateServerConfig(c) ==
    /\ c.addr # Empty
    /\ ~(c.readTimeout < 0)
    /\ ~(c.writeTimeout < 0)
    /\ ~(c.idleTimeout < 0)

\* config.validateLoggingConfig
validateLoggingConfig(c) ==
    /\ c.level \in {"debug", "info", "warn", "error"}
    /\ c.format \in {"json", "text"}

\* config.ValidateConfig: TRUE when it returns nil
ValidateConfig(c) ==
    /\ validateServerConfig(c.server)
    /\ validateLoggingConfig(c.logging)
    /\ (c.defaultProxy # NoProxy => validateProxyURL(c.defaultProxy))
    /\ Len(c.services) # 0
    /\ \A i \in 1..Len(c.services) : validateService(c.services[i])

\* config.setDefaults
setDefaults(c) ==
    LET addr == IF c.server.addr = Empty THEN DefaultAddr ELSE c.server.addr
        dflt(v, d) == IF v = 0 THEN d ELSE v
        str(v, d) == IF v = "" THEN d ELSE v
        node(n) == IF n.proxy = NoProxy /\ c.defaultProxy # NoProxy
                   THEN [n EXCEPT !.proxy = c.defaultProxy] ELSE n
        svc(v) == [v EXCEPT !.addr = IF v.addr = Empty THEN addr ELSE v.addr,
                            !.handler = str(v.handler, "http"),
                            !.listener = str(v.listener, "tcp"),
                            !.nodes = [j \in 1..Len(v.nodes) |-> node(v.nodes[j])]]
    IN  [c EXCEPT !.server = [addr |-> addr,
                              readTimeout |-> dflt(c.server.readTimeout, DefaultReadTimeout),
                              writeTimeout |-> dflt(c.server.writeTimeout, DefaultWriteTimeout),
                              idleTimeout |-> dflt(c.server.idleTimeout, DefaultIdleTimeout)],
                  !.logging = [level |-> str(c.logging.level, "info"),
                               format |-> str(c.logging.format, "json"),
                               output |-> str(c.logging.output, "stdout")],
                  !.services = [i \in 1..Len(c.services) |-> svc(c.services[i])]]

NilConfig == [nil |-> TRUE]

\* config.LoadConfig on a file content.  A content is [kind, cfg]: kind
\* "unreadable" (os.ReadFile fails), "malformed" (yaml.Unmarshal fails) or
\* "yaml", with cfg the Config that yaml.Unmarshal decodes.
LoadConfig(content) ==
    IF content.kind = "unreadable" THEN [err |-> TRUE, cfg |-> NilConfig]
    ELSE IF content.kind = "malformed" THEN [err |-> TRUE, cfg |-> NilConfig]
    ELSE LET c == setDefaults(content.cfg)
         IN  IF ~ValidateConfig(c) THEN [err |-> TRUE, cfg |-> NilConfig]
             ELSE [err |-> FALSE, cfg |-> c]

(***************************************************************************)
(* The logger (pkg/logger)                                                 *)
(***************************************************************************)
\* logger.parseLevel (the level names are lower case after validation)
parseLevel(level) ==
    CASE level = "debug" -> "debug"
      [] level = "info" -> "info"
      [] level = "warn" -> "warn"
      [] level = "error" -> "error"
      [] OTHER -> "info"

\* logger.InitLogger on the current settings; openOk is the outcome of
\* os.OpenFile when the output is a file path.  Returns [err, logger].
InitLogger(cur, level, format, output, openOk) ==
    LET lvl == [cur EXCEPT !.level = parseLevel(level)]
    IN  IF output \notin {"stdout", "stderr"} /\ ~openOk
        THEN [err |-> TRUE, logger |-> lvl]
        ELSE [err |-> FALSE,
              logger |-> [level |-> parseLevel(level),
                          output |-> output,
                          console |-> (format = "text")]]

(***************************************************************************)
(* The router (package router)                                             *)
(*                                                                         *)
(* A Route is [name, rule, node] with node a pointer to a config.Node      *)
(* variable.  UpdateRoutes passes &node, the address of the loop variable  *)
(* of its inner for statement, to buildRoute.                              *)
(***************************************************************************)
NilPtr == 0

\* The address &node at node j of service s.  The module declares go 1.21,
\* where a for statement has one instance of its loop variable: every
\* iteration of the inner loop over the nodes of service s yields the same
\* address.
LoopVarAddr(s, j) == s

NilRoute == [name |-> "", rule |-> NilRule, node |-> NilPtr]

\* Router.buildRoute, the matcher branch after ParseRule returned r
buildRouteParsed(node, ptr, r) ==
    IF r.err THEN [err |-> TRUE, route |-> NilRoute]
    ELSE [err |-> FALSE, route |-> [name |-> node.name, rule |-> r.rule, node |-> ptr]]

\* Router.buildRoute: [err, route]
buildRoute(node, ptr) ==
    IF node.filter.present
    THEN [err |-> FALSE,
          route |-> [name |-> node.name, rule |-> HostMatcher(node.filter.host), node |-> ptr]]
    ELSE IF node.matcher.present
    THEN buildRouteParsed(node, ptr, ParseRule(node.matcher.rule))
    ELSE [err |-> TRUE, route |-> NilRoute]

\* The two nested loops of Router.UpdateRoutes from node j of service s on,
\* with the local slice arr built so far and mem the loop variables written
\* so far (by address).  [err, arr, mem]
RECURSIVE updateRoutesLoop(_, _, _, _, _)

\* the body of the inner loop after buildRoute returned r
updateRoutesAppend(services, s, j, arr, mem, r) ==
    IF r.err THEN [err |-> TRUE, arr |-> << >>, mem |-> << >>]
    ELSE updateRoutesLoop(services, s, j + 1, Append(arr, r.route), mem)

updateRoutesLoop(services, s, j, arr, mem) ==
    IF s > Len(services) THEN [err |-> FALSE, arr |-> arr, mem |-> mem]
    ELSE IF j > Len(services[s].nodes) THEN updateRoutesLoop(services, s + 1, 1, arr, mem)
    ELSE updateRoutesAppend(services, s, j, arr,
                            (LoopVarAddr(s, j) :> services[s].nodes[j]) @@ mem,
                            buildRoute(services[s].nodes[j], LoopVarAddr(s, j)))

\* the routes and the node variables Router.UpdateRoutes builds before it
\* assigns r.routes
UpdateRoutesBuild(services) == updateRoutesLoop(services, 1, 1, << >>, << >>)

NoMatch == [matched |-> FALSE, idx |-> 0, node |-> NilPtr, fault |-> FALSE]

\* matchLoop without the return inside the loop: the last match wins
RECURSIVE matchLoopLastWins(_, _, _, _)
matchLoopLastWins(arr, len, req, i) ==
    IF i > len \/ i > Len(arr) THEN NoMatch
    ELSE IF matchLoopLastWins(arr, len, req, i + 1).matched
         THEN matchLoopLastWins(arr, len, req, i + 1)
         ELSE IF RuleMatch(arr[i].rule, req)
              THEN [matched |-> TRUE, idx |-> i, node |-> arr[i].node, fault |-> FALSE]
              ELSE NoMatch

\* The loop of Router.Match over the slice (arr, len) from element i on.
\* An index beyond the backing array is a fault.
RECURSIVE matchLoop(_, _, _, _)
matchLoop(arr, len, req, i) ==
    IF i > len THEN NoMatch
    ELSE IF i > Len(arr) THEN [NoMatch EXCEPT !.fault = TRUE]
    ELSE IF RuleMatch(arr[i].rule, req)
         THEN [matched |-> TRUE, idx |-> i, node |-> arr[i].node, fault |-> FALSE]
         ELSE matchLoop(arr, len, req, i + 1)

(***************************************************************************)
(* The inputs of the model: nodes, configuration files, requests           *)
(***************************************************************************)
ProxyP == [scheme |-> "http", host |-> <<"p", ":", "9", "0", "9", "1">>]

NodeA == [name |-> "A", addr |-> <<"h", "1", ":", "8", "0">>,
          filter |-> Filter(<<"a">>), matcher |-> NilMatcher, proxy |-> NoProxy]
NodeB == [name |-> "B", addr |-> <<"h", "2", ":", "8", "0">>,
          filter |-> Filter(<<"a">>), matcher |-> NilMatcher, proxy |-> ProxyP]
\* matcher rule: Host{b.example.com} && Method{CONNECT,GET}
NodeC == [name |-> "C", addr |-> <<"h", "3", ":", "4", "4", "3">>,
          filter |-> NilFilter,
          matcher |-> Matcher(<<"H", "o", "s", "t", "{", "b", ".", "e", "x", "a", "m", "p", "l", "e", ".", "c", "o", "m", "}", " ", "&", "&", " ", "M", "e", "t", "h", "o", "d", "{", "C", "O", "N", "N", "E", "C", "T", ",", "G", "E", "T", "}">>),
          proxy |-> NoProxy]
\* matcher rule: Bogus{x}, an unknown matcher name
NodeBadRule == [name |-> "D", addr |-> <<"h", "1", ":", "8", "0">>,
                filter |-> NilFilter,
                matcher |-> Matcher(<<"B", "o", "g", "u", "s", "{", "x", "}">>),
                proxy |-> NoProxy]
\* both filter and matcher
NodeBoth == [name |-> "E", addr |-> <<"h", "2", ":", "8", "0">>,
             filter |-> Filter(<<"a">>),
             matcher |-> Matcher(<<"H", "o", "s", "t", "{", "a", "}">>),
             proxy |-> NoProxy]

\* neither filter nor matcher
NodeNeither == [name |-> "F", addr |-> <<"h", "1", ":", "8", "0">>,
                filter |-> NilFilter, matcher |-> NilMatcher, proxy |-> NoProxy]

RawService(name, nodes) ==
    [name |-> name, addr |-> Empty, handler |-> "", listener |-> "", nodes |-> nodes]

RawConfig(level, format, output, defaultProxy, services) ==
    [server |-> [addr |-> Empty, readTimeout |-> 0, writeTimeout |-> 0, idleTimeout |-> 0],
     logging |-> [level |-> level, format |-> format, output |-> output],
     defaultProxy |-> defaultProxy,
     services |-> services]

Yaml(c) == [kind |-> "yaml", cfg |-> c]

\* The contents the configuration file takes: two configurations that load
\* and build, one that loads and has a rule that does not parse, one with a
\* node that has both filter and matcher, an unreadable file, a malformed one
\* and one with a node that has neither filter nor matcher.
Files ==
    << Yaml(RawConfig("", "", "", NoProxy,
                      <<RawService("s1", <<NodeA, NodeB>>), RawService("s2", <<NodeC>>)>>)),
       Yaml([RawConfig("debug", "text", "/var/log/fwd.log", ProxyP,
                       <<[RawService("s1", <<NodeC>>) EXCEPT !.addr = <<":", "8", "1">>],
                         RawService("s2", <<NodeA>>)>>)
             EXCEPT !.server = [addr |-> <<":", "9", "0">>, readTimeout |-> 5,
                                writeTimeout |-> 7, idleTimeout |-> 9]]),
       Yaml(RawConfig("warn", "json", "stderr", NoProxy,
                      <<RawService("s1", <<NodeB, NodeBadRule>>)>>)),
       Yaml(RawConfig("info", "json", "stdout", NoProxy,
                      <<RawService("s1", <<NodeBoth>>)>>)),
       [kind |-> "unreadable", cfg |-> NilConfig],
       [kind |-> "malformed", cfg |-> NilConfig],
       Yaml(RawConfig("info", "json", "stdout", NoProxy,
                      <<RawService("s1", <<NodeA, NodeNeither>>)>>)) >>

\* the files a process can have started from: main exits when LoadConfig or
\* NewServer fails
StartFiles ==
    {f \in 1..Len(Files) :
        /\ ~LoadConfig(Files[f]).err
        /\ ~UpdateRoutesBuild(LoadConfig(Files[f]).cfg.services).err}

NoHeader == << >>

Request(method, host, path, header) ==
    [method |-> method, host |-> host, urlHost |-> Empty, path |-> path,
     header |-> header, query |-> << >>, rawQuery |-> Empty, tls |-> FALSE]

\* GET http://a:8080/
ReqA == Request(<<"G", "E", "T">>, <<"a", ":", "8", "0", "8", "0">>, <<"/">>, NoHeader)
\* GET http://b.example.com/v1
ReqB == Request(<<"G", "E", "T">>, <<"b", ".", "e", "x", "a", "m", "p", "l", "e", ".", "c", "o", "m">>, <<"/", "v", "1">>, NoHeader)
\* POST http://b.example.com/v1
ReqNone == Request(<<"P", "O", "S", "T">>, <<"b", ".", "e", "x", "a", "m", "p", "l", "e", ".", "c", "o", "m">>, <<"/", "v", "1">>, NoHeader)

MatchRequests == {ReqA, ReqB, ReqNone}

(***************************************************************************)
(* Bounds                                                                  *)
(***************************************************************************)
\* goroutines calling Router.Match concurrently
NReaders == 2
\* file events that can be queued for the watcher
MaxEvents == 1
\* the calls of Watcher.Stop
MaxStops == 2

Readers == 1..NReaders

(***************************************************************************)
(* The routing table in memory                                             *)
(*                                                                         *)
(* Router.routes is a slice: a header (data pointer, length) assigned word *)
(* by word, and a backing array on the heap.  heap[g] holds the backing    *)
(* array arr built by one UpdateRoutes call, the node variables mem its    *)
(* routes point to, and from, the services it was built from.  A Match     *)
(* result points into mem.  Arrays nothing refers to are collected.        *)
(***************************************************************************)
GenIds == 1..(NReaders + 2)

FreeSlot == [live |-> FALSE, arr |-> << >>, mem |-> << >>, from |-> << >>]

Collect(h, refs) == [g \in GenIds |-> IF g \in refs THEN h[g] ELSE FreeSlot]

\* the node a Match result points to
Deref(h, g, ptr) == h[g].mem[ptr]

NoRequest == Request(Empty, Empty, Empty, NoHeader)
ReaderIdle == [pc |-> "idle", req |-> NoRequest, ptr |-> NilPtr, len |-> 0, res |-> NoMatch]

(***************************************************************************)
(* Router.Match, called by the request handlers                            *)
(***************************************************************************)
\* r.mu.RLock() can return: no writer holds the lock
RLockNoGuard(mu) == TRUE
RLock(mu) == ~mu.writer

\* r.mu.Lock() can return: nobody holds the lock
Lock(mu) == ~mu.writer /\ mu.readers = {}

\* Match is entered: r.mu.RLock(), and the range expression r.routes is
\* evaluated once, reading the slice header as it is in memory
MatchRLock(p) ==
    /\ rd[p].pc = "idle"
    /\ RLock(rmu)
    /\ rmu' = [rmu EXCEPT !.readers = @ \cup {p}]
    /\ rd' = [rd EXCEPT ![p].pc = "loop", ![p].ptr = routes.ptr, ![p].len = routes.len]
    /\ UNCHANGED <<heap, routes, srvConfig, cfg, logger, file, events, wpc, wl, stopped, sv, ct, stop, pf, stopRets, rl, fc, servers>>

\* the loop over the routes, up to the return statement; req is the request
\* Match was called with (nothing reads it before the loop)
MatchLoop(p, req) ==
    /\ rd[p].pc = "loop"
    /\ rd' = [rd EXCEPT ![p].req = req,
                        ![p].res = matchLoop(heap[rd[p].ptr].arr, rd[p].len, req, 1),
                        ![p].pc = "return"]
    /\ UNCHANGED <<heap, routes, rmu, srvConfig, cfg, logger, file, events, wpc, wl, stopped, sv, ct, stop, pf, stopRets, rl, fc, servers>>

\* the deferred r.mu.RUnlock(): Match returns rd[p].res to its caller
MatchRUnlock(p) ==
    /\ rd[p].pc = "return"
    /\ rmu' = [rmu EXCEPT !.readers = @ \ {p}]
    /\ rd' = [rd EXCEPT ![p] = ReaderIdle]
    /\ heap' = Collect(heap, {routes.ptr, wl.gen, sv.node.gen}
                                \cup {rd[q].ptr : q \in Readers \ {p}})
    /\ UNCHANGED <<routes, srvConfig, cfg, logger, file, events, wpc, wl, stopped, sv, ct, stop, pf, stopRets, rl, fc, servers>>

(***************************************************************************)
(* The configuration file, config.Watcher, main's onChange callback,       *)
(* Server.Reload and Router.UpdateRoutes                                   *)
(***************************************************************************)
\* what is running before a reload, kept to state what a reload changed
Running == [routes |-> routes, table |-> heap[routes.ptr], srvConfig |-> srvConfig,
            cfg |-> cfg, logger |-> logger]

\* last is the outcome of the reload that ended last, kept while the watcher
\* waits for the next event
WlIdle ==
    [cfg |-> NilConfig, gen |-> NilPtr, outcome |-> "none", pre |-> [none |-> TRUE],
     last |-> "none"]

\* the file is written with content f; fsnotify queues a Write event
FileWrite(f) ==
    /\ events < MaxEvents
    /\ ~stopped
    /\ file' = f
    /\ events' = events + 1
    /\ UNCHANGED <<heap, routes, rmu, srvConfig, cfg, logger, wpc, wl, stopped, rd, sv, ct, stop, pf, stopRets, rl, fc, servers>>

\* Watcher.watch that receives a Write event and does not call reload
WatchEventIgnored ==
    /\ wpc = "watch"
    /\ events > 0
    /\ events' = events - 1
    /\ wpc' = "watch"
    /\ UNCHANGED <<heap, routes, rmu, srvConfig, cfg, logger, file, wl, stopped, rd, sv, ct, stop, pf, stopRets, rl, fc, servers>>

\* a watch loop that starts a reload for an event while the reload for an
\* earlier event is still running ("go w.reload()" on a reload without w.mu)
WatchEventOverlapping ==
    /\ wpc \notin {"reload", "exited"}
    /\ events > 0
    /\ events' = events - 1
    /\ wpc' = "reload"
    /\ UNCHANGED <<heap, routes, rmu, srvConfig, cfg, logger, file, wl, stopped, rd, sv, ct, stop, pf, stopRets, rl, fc, servers>>

\* Watcher.watch receives a Write or Create event and calls reload; an event
\* already on its way can still be received while Stop closes the watcher
WatchEvent ==
    /\ wpc = "watch"
    /\ events > 0
    /\ events' = events - 1
    /\ wpc' = "reload"
    /\ UNCHANGED <<heap, routes, rmu, srvConfig, cfg, logger, file, wl, stopped, rd, sv, ct, stop, pf, stopRets, rl, fc, servers>>

\* Watcher.watch finds the Events channel closed and returns
WatchClosed ==
    /\ wpc = "watch"
    /\ stopped
    /\ wpc' = "exited"
    /\ events' = 0
    /\ UNCHANGED <<heap, routes, rmu, srvConfig, cfg, logger, file, wl, stopped, rd, sv, ct, stop, pf, stopRets, rl, fc, servers>>

\* Watcher.Stop, from its Lock to its return (w.mu is free when no reload is
\* past its Lock): a call on a stopped watcher returns nil, the first call
\* sets stopped and returns the error of watcher.Close, if any
WatcherStop(closeOk) ==
    /\ wpc \in {"watch", "reload", "exited"}
    /\ Len(stopRets) < MaxStops
    /\ IF stopped
       THEN /\ stopped' = stopped
            /\ stopRets' = Append(stopRets, "nil")
       ELSE /\ stopped' = TRUE
            /\ stopRets' = Append(stopRets, IF closeOk THEN "nil" ELSE "error")
    /\ UNCHANGED <<heap, routes, rmu, srvConfig, cfg, logger, file, events, wpc, wl, rd, sv, ct, stop, pf, rl, fc, servers>>

\* Watcher.reload without the test of w.stopped
ReloadLockUnchecked ==
    /\ wpc = "reload"
    /\ wpc' = "load"
    /\ wl' = [WlIdle EXCEPT !.outcome = "running", !.pre = Running]
    /\ UNCHANGED <<heap, routes, rmu, srvConfig, cfg, logger, file, events, stopped, rd, sv, ct, stop, pf, stopRets, rl, fc, servers>>

\* Watcher.reload: w.mu.Lock() and the test of w.stopped
ReloadLock ==
    /\ wpc = "reload"
    /\ IF stopped
       THEN wpc' = "watch" /\ wl' = wl
       ELSE wpc' = "load" /\ wl' = [WlIdle EXCEPT !.outcome = "running", !.pre = Running]
    /\ UNCHANGED <<heap, routes, rmu, srvConfig, cfg, logger, file, events, stopped, rd, sv, ct, stop, pf, stopRets, rl, fc, servers>>

\* Watcher.reload: LoadConfig(w.configPath)
ReloadLoad ==
    /\ wpc = "load"
    /\ LET r == LoadConfig(Files[file])
       IN  IF r.err
           THEN wpc' = "returned" /\ wl' = [wl EXCEPT !.outcome = "load_failed"]
           ELSE wpc' = "on_change" /\ wl' = [wl EXCEPT !.cfg = r.cfg]
    /\ UNCHANGED <<heap, routes, rmu, srvConfig, cfg, logger, file, events, stopped, rd, sv, ct, stop, pf, stopRets, rl, fc, servers>>

\* onChange: the logger is reinitialized when the logging section changed
OnChangeLogger ==
    /\ wpc = "on_change"
    /\ IF cfg.logging # wl.cfg.logging
       THEN \E openOk \in BOOLEAN :
               LET r == InitLogger(logger, wl.cfg.logging.level, wl.cfg.logging.format,
                                   wl.cfg.logging.output, openOk)
               IN  /\ logger' = r.logger
                   /\ IF r.err
                      THEN wpc' = "returned" /\ wl' = [wl EXCEPT !.outcome = "apply_failed"]
                      ELSE wpc' = "srv_reload" /\ wl' = wl
       ELSE logger' = logger /\ wpc' = "srv_reload" /\ wl' = wl
    /\ UNCHANGED <<heap, routes, rmu, srvConfig, cfg, file, events, stopped, rd, sv, ct, stop, pf, stopRets, rl, fc, servers>>

\* Watcher.mu is held by reload from its Lock to its return
WatcherMuHeld ==
    wpc \in {"load", "on_change", "srv_reload", "build", "store_ptr", "store_len",
             "unlock", "set_config", "set_cfg", "returned"}

\* Server.mu is held by Reload from its Lock to its return
ServerMuByReload == wpc \in {"build", "store_ptr", "store_len", "unlock", "set_config"}

\* Server.mu is held by Stop from its Lock to its return
ServerMuByStop == stop.pc = "shutdown"

\* Server.Reload: s.mu.Lock(); Router.UpdateRoutes: r.mu.Lock()
UpdateRoutesLock ==
    /\ wpc = "srv_reload"
    /\ ~ServerMuByStop
    /\ Lock(rmu)
    /\ rmu' = [rmu EXCEPT !.writer = TRUE]
    /\ wpc' = "build"
    /\ UNCHANGED <<heap, routes, srvConfig, cfg, logger, file, events, wl, stopped, rd, sv, ct, stop, pf, stopRets, rl, fc, servers>>

\* a heap slot nothing refers to
\* the backing arrays and node variables something still points to: r.routes,
\* the range copies of the Match calls, the node a handler got from Match
HeldGens == {routes.ptr} \cup {rd[q].ptr : q \in Readers} \cup {sv.node.gen}

FreeGen == CHOOSE x \in GenIds \ HeldGens : \A y \in GenIds \ HeldGens : x <= y

\* the services cut after their first n nodes, in service order then node order
RECURSIVE TakeNodes(_, _)
TakeNodes(services, n) ==
    IF services = << >> \/ n = 0 THEN << >>
    ELSE LET m == IF n < Len(Head(services).nodes) THEN n ELSE Len(Head(services).nodes)
         IN  << [Head(services) EXCEPT !.nodes = SubSeq(Head(services).nodes, 1, m)] >>
                \o TakeNodes(Tail(services), n - m)

RECURSIVE CountNodes(_)
CountNodes(services) ==
    IF services = << >> THEN 0 ELSE Len(Head(services).nodes) + CountNodes(Tail(services))

\* the k of the k-th node at which the loops of UpdateRoutes return an error,
\* 0 when they end without error
FailingNode(services) ==
    IF ~UpdateRoutesBuild(services).err THEN 0
    ELSE CHOOSE k \in 1..CountNodes(services) :
            /\ UpdateRoutesBuild(TakeNodes(services, k)).err
            /\ ~UpdateRoutesBuild(TakeNodes(services, k - 1)).err

\* UpdateRoutesBuilt for an UpdateRoutes that appends to r.routes as it goes:
\* a build that fails at the k-th node leaves the k-1 routes built before it
UpdateRoutesBuiltPrefix(r, g) ==
    IF r.err
    THEN /\ rmu' = [rmu EXCEPT !.writer = FALSE]
         /\ wpc' = "returned"
         /\ wl' = [wl EXCEPT !.outcome = "apply_failed"]
         /\ heap' = [heap EXCEPT ![g] =
                       [live |-> TRUE,
                        arr |-> UpdateRoutesBuild(TakeNodes(wl.cfg.services,
                                     FailingNode(wl.cfg.services) - 1)).arr,
                        mem |-> UpdateRoutesBuild(TakeNodes(wl.cfg.services,
                                     FailingNode(wl.cfg.services) - 1)).mem,
                        from |-> wl.cfg.services]]
         /\ routes' = [ptr |-> g, len |-> FailingNode(wl.cfg.services) - 1]
    ELSE /\ heap' = [heap EXCEPT ![g] = [live |-> TRUE, arr |-> r.arr, mem |-> r.mem,
                                        from |-> wl.cfg.services]]
         /\ wl' = [wl EXCEPT !.gen = g]
         /\ wpc' = "store_ptr"
         /\ rmu' = rmu
         /\ routes' = routes

\* UpdateRoutesBuilt for an UpdateRoutes that empties r.routes and appends to
\* it in place: a failed build leaves the table truncated
UpdateRoutesBuiltInPlace(r, g) ==
    IF r.err
    THEN /\ rmu' = [rmu EXCEPT !.writer = FALSE]
         /\ wpc' = "returned"
         /\ wl' = [wl EXCEPT !.outcome = "apply_failed"]
         /\ heap' = heap
         /\ routes' = [routes EXCEPT !.len = 0]
    ELSE /\ heap' = [heap EXCEPT ![g] = [live |-> TRUE, arr |-> r.arr, mem |-> r.mem,
                                        from |-> wl.cfg.services]]
         /\ wl' = [wl EXCEPT !.gen = g]
         /\ wpc' = "store_ptr"
         /\ rmu' = rmu
         /\ routes' = routes

\* Router.UpdateRoutes after its loops ended with r, the backing array at g:
\* r.routes is not touched before the loops have ended without error
UpdateRoutesBuilt(r, g) ==
    IF r.err
    THEN /\ rmu' = [rmu EXCEPT !.writer = FALSE]
         /\ wpc' = "returned"
         /\ wl' = [wl EXCEPT !.outcome = "apply_failed"]
         /\ heap' = heap
         /\ routes' = routes
    ELSE /\ heap' = [heap EXCEPT ![g] = [live |-> TRUE, arr |-> r.arr, mem |-> r.mem,
                                        from |-> wl.cfg.services]]
         /\ wl' = [wl EXCEPT !.gen = g]
         /\ wpc' = "store_ptr"
         /\ rmu' = rmu
         /\ routes' = routes

\* Router.UpdateRoutes: the loops that build the local slice; on an error
\* the deferred Unlock runs and the error goes up through Reload and onChange
UpdateRoutesLoops ==
    /\ wpc = "build"
    /\ UpdateRoutesBuilt(UpdateRoutesBuild(wl.cfg.services), FreeGen)
    /\ UNCHANGED <<srvConfig, cfg, logger, file, events, stopped, rd, sv, ct, stop, pf, stopRets, rl, fc, servers>>

\* r.routes = routes: the data pointer of the slice is written
UpdateRoutesStorePtr ==
    /\ wpc = "store_ptr"
    /\ routes' = [routes EXCEPT !.ptr = wl.gen]
    /\ wpc' = "store_len"
    /\ UNCHANGED <<heap, rmu, srvConfig, cfg, logger, file, events, wl, stopped, rd, sv, ct, stop, pf, stopRets, rl, fc, servers>>

\* r.routes = routes: the length of the slice is written
UpdateRoutesStoreLen ==
    /\ wpc = "store_len"
    /\ routes' = [routes EXCEPT !.len = Len(heap[wl.gen].arr)]
    /\ wpc' = "unlock"
    /\ UNCHANGED <<heap, rmu, srvConfig, cfg, logger, file, events, wl, stopped, rd, sv, ct, stop, pf, stopRets, rl, fc, servers>>

\* the deferred r.mu.Unlock(); UpdateRoutes returns nil
UpdateRoutesUnlock ==
    /\ wpc = "unlock"
    /\ rmu' = [rmu EXCEPT !.writer = FALSE]
    /\ heap' = Collect(heap, HeldGens)
    /\ wl' = [wl EXCEPT !.gen = NilPtr]
    /\ wpc' = "set_config"
    /\ UNCHANGED <<routes, srvConfig, cfg, logger, file, events, stopped, rd, sv, ct, stop, pf, stopRets, rl, fc, servers>>

\* Server.getUniqueAddresses: the server's address and the services' own
getUniqueAddresses(c) ==
    {c.server.addr} \cup
    {c.services[i].addr : i \in {j \in 1..Len(c.services) : c.services[j].addr # Empty}}

\* Server.Start that listened on every address: one http.Server and one
\* listener per address, with the timeouts of the configuration
StartServers(c) ==
    { [addr |-> a, readTimeout |-> c.server.readTimeout,
       writeTimeout |-> c.server.writeTimeout, idleTimeout |-> c.server.idleTimeout] :
        a \in getUniqueAddresses(c) }

\* a Reload that also starts the servers of the new configuration
ReloadSetConfigRestart ==
    /\ wpc = "set_config"
    /\ srvConfig' = wl.cfg
    /\ servers' = StartServers(wl.cfg)
    /\ wpc' = "set_cfg"
    /\ UNCHANGED <<heap, routes, rmu, cfg, logger, file, events, wl, stopped, rd, sv, ct, stop, pf, stopRets, rl, fc>>

\* Server.Reload: s.config = cfg
ReloadSetConfig ==
    /\ wpc = "set_config"
    /\ srvConfig' = wl.cfg
    /\ wpc' = "set_cfg"
    /\ UNCHANGED <<heap, routes, rmu, cfg, logger, file, events, wl, stopped, rd, sv, ct, stop, pf, stopRets, rl, fc, servers>>

\* onChange: cfg = newCfg; return nil
OnChangeSetCfg ==
    /\ wpc = "set_cfg"
    /\ cfg' = wl.cfg
    /\ wpc' = "returned"
    /\ wl' = [wl EXCEPT !.outcome = "ok"]
    /\ UNCHANGED <<heap, routes, rmu, srvConfig, logger, file, events, stopped, rd, sv, ct, stop, pf, stopRets, rl, fc, servers>>

\* Watcher.reload has logged the outcome; the deferred w.mu.Unlock() runs and
\* watch waits for the next event
ReloadUnlock ==
    /\ wpc = "returned"
    /\ wpc' = "watch"
    /\ wl' = [WlIdle EXCEPT !.last = wl.outcome]
    /\ UNCHANGED <<heap, routes, rmu, srvConfig, cfg, logger, file, events, stopped, rd, sv, ct, stop, pf, stopRets, rl, fc, servers>>

\* Watcher.reload from its Lock to its return, with everything it calls
ReloadSteps ==
    \/ ReloadLock
    \/ ReloadLoad
    \/ OnChangeLogger
    \/ UpdateRoutesLock
    \/ UpdateRoutesLoops
    \/ UpdateRoutesStorePtr
    \/ UpdateRoutesStoreLen
    \/ UpdateRoutesUnlock
    \/ ReloadSetConfig
    \/ OnChangeSetCfg
    \/ ReloadUnlock

\* the files whose content passes LoadConfig
LoadableFiles == {f \in 1..Len(Files) : ~LoadConfig(Files[f]).err}

\* Concurrent Match calls against reloads of the configurations that load
NextRouter ==
    \/ \E p \in Readers : MatchRLock(p)
    \/ \E p \in Readers, req \in MatchRequests : MatchLoop(p, req)
    \/ \E p \in Readers : MatchRUnlock(p)
    \/ \E f \in LoadableFiles : FileWrite(f)
    \/ WatchEvent
    \/ ReloadSteps

\* The watcher against every content of the file, with one Match caller
NextReload ==
    \/ MatchRLock(1)
    \/ \E req \in MatchRequests : MatchLoop(1, req)
    \/ MatchRUnlock(1)
    \/ \E f \in 1..Len(Files) : FileWrite(f)
    \/ WatchEvent
    \/ WatchClosed
    \/ \E closeOk \in BOOLEAN : WatcherStop(closeOk)
    \/ ReloadSteps

(***************************************************************************)
(* http.ResponseWriter as the handlers use it                              *)
(*                                                                         *)
(* hdr is the Content-Type of the header map, still changeable; the first  *)
(* WriteHeader sends status and header map, later calls are ignored; a     *)
(* Write before any WriteHeader sends 200 first.                           *)
(***************************************************************************)
NewResponseWriter ==
    [hdr |-> "", wroteHeader |-> FALSE, status |-> 0, ctype |-> "", body |-> << >>,
     broken |-> FALSE]

HeaderSetContentType(w, v) == [w EXCEPT !.hdr = v]

WriteHeader(w, code) ==
    IF w.wroteHeader THEN w
    ELSE [w EXCEPT !.wroteHeader = TRUE, !.status = code, !.ctype = w.hdr]

StatusInternalServerError == 500
StatusBadGateway == 502

\* on a connection the client has closed (broken) a write delivers nothing
Write(w, data) ==
    IF w.broken THEN w
    ELSE IF w.wroteHeader THEN [w EXCEPT !.body = Append(@, data)]
    ELSE [w EXCEPT !.wroteHeader = TRUE, !.status = 200, !.ctype = w.hdr,
                   !.body = Append(@, data)]

\* http.Error: a plain text reply, the message followed by a newline
HttpError(w, msg, code) ==
    Write(WriteHeader(HeaderSetContentType(w, "text/plain; charset=utf-8"), code),
          [kind |-> "text", text |-> msg])

\* handleNoMatch that answers as handleConnect and handleWebSocket do
handleNoMatchText(w, r) == HttpError(w, "No matching route found", StatusBadGateway)

\* Server.handleNoMatch: json.Encoder.Encode of the map error/host/path/method
handleNoMatch(w, r) ==
    Write(WriteHeader(HeaderSetContentType(w, "application/json"), StatusBadGateway),
          [kind |-> "json", error |-> "no matching route found",
           host |-> r.host, path |-> r.path, method |-> r.method])

\* Server.handleError: json.Encoder.Encode of the map error/host/path
handleError(w, r, statusCode, message) ==
    Write(WriteHeader(HeaderSetContentType(w, "application/json"), statusCode),
          [kind |-> "json", error |-> message, host |-> r.host, path |-> r.path])

(***************************************************************************)
(* Server.ServeHTTP and the handlers                                       *)
(***************************************************************************)
MethodConnect == <<"C", "O", "N", "N", "E", "C", "T">>
MethodGet == <<"G", "E", "T">>
HdrUpgrade == <<"U", "p", "g", "r", "a", "d", "e">>
HdrConnection == <<"C", "o", "n", "n", "e", "c", "t", "i", "o", "n">>

\* isWebSocketUpgrade: both header values compared byte by byte
isWebSocketUpgrade(r) ==
    /\ HeaderGet(r.header, HdrUpgrade) = <<"w", "e", "b", "s", "o", "c", "k", "e", "t">>
    /\ HeaderGet(r.header, HdrConnection) = <<"U", "p", "g", "r", "a", "d", "e">>

\* ServeHTTP with the WebSocket test ahead of the CONNECT test
ServeHTTPDispatchUpgradeFirst(r) ==
    IF isWebSocketUpgrade(r) THEN "handleWebSocket"
    ELSE IF r.method = MethodConnect THEN "handleConnect"
    ELSE "handleHTTP"

\* the handler ServeHTTP calls
ServeHTTPDispatch(r) ==
    IF r.method = MethodConnect THEN "handleConnect"
    ELSE IF isWebSocketUpgrade(r) THEN "handleWebSocket"
    ELSE "handleHTTP"

\* header maps of the requests served
UpgradeHeader(upgrade, connection) ==
    [k \in {HdrUpgrade, HdrConnection} |->
        IF k = HdrUpgrade THEN <<upgrade>> ELSE <<connection>>]

HdrWebSocket == UpgradeHeader(<<"w", "e", "b", "s", "o", "c", "k", "e", "t">>, <<"U", "p", "g", "r", "a", "d", "e">>)
HdrWebSocketOtherCase == UpgradeHeader(<<"W", "e", "b", "S", "o", "c", "k", "e", "t">>, <<"u", "p", "g", "r", "a", "d", "e">>)

ServeHosts ==
    { <<"a">>,
      <<"b", ".", "e", "x", "a", "m", "p", "l", "e", ".", "c", "o", "m", ":", "4", "4", "3">>,
      <<"z", "z", "z">> }

\* CONNECT requests have an empty URL path, the others ask for /
ServeRequests ==
    {Request(MethodGet, h, <<"/">>, hd) :
        h \in ServeHosts, hd \in {NoHeader, HdrWebSocket, HdrWebSocketOtherCase}}
    \cup {Request(MethodConnect, h, Empty, hd) :
        h \in ServeHosts, hd \in {NoHeader, HdrWebSocket}}

NilNode == [gen |-> NilPtr, ptr |-> NilPtr]

SvIdle ==
    [pc |-> "idle", req |-> NoRequest, calls |-> << >>, w |-> NewResponseWriter,
     node |-> NilNode, hijacked |-> FALSE, dials |-> << >>,
     fwd |-> "", upstream |-> 0, lookups |-> 0, found |-> NilConfig]

\* the node variable at the same address among those of the table that is
\* published now
ServedNodeOfPublished == Deref(heap, routes.ptr, sv.node.ptr)

\* the node of the request being served
ServedNode == Deref(heap, sv.node.gen, sv.node.ptr)

\* Router.Match as a handler calls it on the published table, between its
\* RLock and RUnlock
RouterMatch(r) == matchLoop(heap[routes.ptr].arr, routes.len, r, 1)

\* net/http hands an accepted request to ServeHTTP; srv.Shutdown closes the
\* listeners first, so nothing is accepted once Stop has begun
Accept(r) ==
    /\ sv.pc = "idle"
    /\ stop.pc = "running"
    /\ sv' = [SvIdle EXCEPT !.pc = "serve", !.req = r]
    /\ UNCHANGED <<ct, routerVars, stop, pf, rl, fc>>

ServeHTTP ==
    /\ sv.pc = "serve"
    /\ sv' = [sv EXCEPT !.pc = ServeHTTPDispatch(sv.req),
                        !.calls = Append(@, ServeHTTPDispatch(sv.req))]
    /\ UNCHANGED <<ct, routerVars, stop, pf, rl, fc>>

\* handleHTTP after its Match returned res
handleHTTPMatched(res) ==
    IF ~res.matched
    THEN sv' = [sv EXCEPT !.pc = "done", !.w = handleNoMatch(sv.w, sv.req),
                          !.lookups = @ + 1]
    ELSE sv' = [sv EXCEPT !.pc = "forward", !.node = [gen |-> routes.ptr, ptr |-> res.node],
                          !.lookups = @ + 1,
                          !.found = Deref(heap, routes.ptr, res.node)]

\* a handleHTTP that reads s.config under s.mu.RLock()
handleHTTPUnderServerMu ==
    /\ sv.pc = "handleHTTP"
    /\ ~ServerMuByStop /\ ~ServerMuByReload
    /\ RLock(rmu)
    /\ handleHTTPMatched(RouterMatch(sv.req))
    /\ UNCHANGED <<ct, routerVars, stop, pf, rl, fc>>

handleHTTP ==
    /\ sv.pc = "handleHTTP"
    /\ RLock(rmu)
    /\ handleHTTPMatched(RouterMatch(sv.req))
    /\ UNCHANGED <<ct, routerVars, stop, pf, rl, fc>>

\* the dial a handler makes for node n: to the upstream proxy when n has one
DialFor(n) ==
    IF n.proxy # NoProxy THEN [to |-> "proxy", addr |-> n.proxy.host]
    ELSE [to |-> "backend", addr |-> n.addr]

UpstreamStatuses == {200, 404}

ForwardOutcomes == {"ok", "do_failed", "read_failed", "write_failed"}

ForwardError == "failed to forward request"

\* Forwarder.Forward up to its return, on the writer w of request r: client.Do
\* fails (do_failed); or the upstream answers with status st, its headers and
\* status are written, and io.Copy copies the whole body (ok), fails reading
\* the upstream after a part of the body (read_failed), or fails writing to a
\* client that has gone (write_failed)
ForwardWrites(w, outcome, st) ==
    CASE outcome = "do_failed" -> w
      [] outcome = "ok" ->
           Write(WriteHeader(HeaderSetContentType(w, "upstream"), st),
                 [kind |-> "upstream", text |-> "body"])
      [] outcome = "read_failed" ->
           Write(WriteHeader(HeaderSetContentType(w, "upstream"), st),
                 [kind |-> "upstream", text |-> "bo"])
      [] outcome = "write_failed" ->
           [WriteHeader(HeaderSetContentType(w, "upstream"), st) EXCEPT !.broken = TRUE]

\* the error Forward returns
ForwardFails(outcome) == outcome # "ok"

\* handleHTTP after Forward returned: every error is answered by handleError
handleHTTPForwarded(w, r, failed) ==
    IF failed THEN handleError(w, r, StatusBadGateway, ForwardError) ELSE w

\* Forwarder.Forward and the rest of handleHTTP
Forward(outcome, st) ==
    /\ sv.pc = "forward"
    /\ sv' = [sv EXCEPT
                !.pc = "done",
                !.dials = Append(@, DialFor(ServedNode)),
                !.fwd = outcome,
                !.upstream = IF outcome = "do_failed" THEN 0 ELSE st,
                !.w = handleHTTPForwarded(ForwardWrites(@, outcome, st), sv.req,
                                          ForwardFails(outcome))]
    /\ UNCHANGED <<ct, routerVars, stop, pf, rl, fc>>

\* handleWebSocket after its Match returned res
handleWebSocketMatched(res) ==
    IF ~res.matched
    THEN sv' = [sv EXCEPT !.pc = "done",
                          !.w = HttpError(@, "No matching route found", StatusBadGateway),
                          !.lookups = @ + 1]
    ELSE sv' = [sv EXCEPT !.pc = "upgrade", !.node = [gen |-> routes.ptr, ptr |-> res.node],
                          !.lookups = @ + 1,
                          !.found = Deref(heap, routes.ptr, res.node)]

handleWebSocket ==
    /\ sv.pc = "handleWebSocket"
    /\ RLock(rmu)
    /\ handleWebSocketMatched(RouterMatch(sv.req))
    /\ UNCHANGED <<ct, routerVars, stop, pf, rl, fc>>

\* upgrader.Upgrade: on a bad handshake it answers 400 itself, else it
\* hijacks the connection and answers 101 on it
WebSocketUpgrade(ok) ==
    /\ sv.pc = "upgrade"
    /\ sv' = IF ok THEN [sv EXCEPT !.pc = "ws_dial", !.hijacked = TRUE]
             ELSE [sv EXCEPT !.pc = "done",
                             !.w = HttpError(@, "Bad Request", 400)]
    /\ UNCHANGED <<ct, routerVars, stop, pf, rl, fc>>

\* dialer.Dial: on failure the handler returns and the client is closed
WebSocketDial(ok) ==
    /\ sv.pc = "ws_dial"
    /\ sv' = [sv EXCEPT !.pc = IF ok THEN "bridge" ELSE "done",
                        !.dials = Append(@, DialFor(ServedNode))]
    /\ UNCHANGED <<ct, routerVars, stop, pf, rl, fc>>

\* one copy direction of the bridge ends and handleWebSocket returns
WebSocketClose ==
    /\ sv.pc = "bridge"
    /\ sv' = [sv EXCEPT !.pc = "done"]
    /\ UNCHANGED <<ct, routerVars, stop, pf, rl, fc>>

(***************************************************************************)
(* Server.handleConnect and Server.connectThroughProxy                     *)
(*                                                                         *)
(* ct.conn is the target connection (to the proxy or to the backend).      *)
(* The far side of it is the environment: the proxy answers the CONNECT    *)
(* with the status line ct.sent, which reaches the socket in one or two    *)
(* segments (ct.pending is the part still on its way), and after a 200 the *)
(* bytes of the backend follow on the same connection.  ct.wire holds what *)
(* has arrived and was not read yet.                                       *)
(***************************************************************************)
\* bytes each side of a tunnel sends
MaxBytes == 2

\* the size of the buffer of the one Read of the proxy's answer
BufSize == 1024

Payload(alphabet, n) == [i \in 1..n |-> alphabet[((i - 1) % Len(alphabet)) + 1]]
BackendBytes == Payload(<<"x", "y", "z">>, MaxBytes)
ClientBytes == Payload(<<"c", "d", "e">>, MaxBytes)

ProxyResponses ==
    { <<"H", "T", "T", "P", "/", "1", ".", "1", " ", "2", "0", "0", " ", "O", "K", "\r", "\n", "\r", "\n">>,
      <<"H", "T", "T", "P", "/", "1", ".", "1", " ", "2", "0", "4", " ", "N", "o", " ", "C", "o", "n", "t", "e", "n", "t", "\r", "\n", "\r", "\n">>,
      <<"H", "T", "T", "P", "/", "1", ".", "1", " ", "4", "0", "7", " ", "A", "u", "t", "h", "\r", "\n", "\r", "\n">> }

\* the status code of an HTTP status line: its second space-separated field
ProxyStatus(resp) == Split(resp, " ")[2]

\* connectThroughProxy's test of what it read, for a test of the first digit only
ProxyResponseAny2xx(response) ==
    ~(Len(response) < 12 \/ Slice(response, 9, 10) # <<"2">>)

\* connectThroughProxy's test of what it read: bytes 9..11 are "200"
ProxyResponseOK(response) ==
    ~(Len(response) < 12 \/ Slice(response, 9, 12) # <<"2", "0", "0">>)

CtIdle ==
    [pc |-> "idle", via |-> "none", conn |-> "none", ioerr |-> "",
     sent |-> Empty, pending |-> Empty, wire |-> Empty, response |-> Empty,
     line200 |-> FALSE, backendSent |-> Empty, toClient |-> Empty,
     clientSent |-> Empty, cwire |-> Empty, toTarget |-> Empty]

\* handleConnect after its Match returned res
handleConnectMatched(res) ==
    IF ~res.matched
    THEN /\ sv' = [sv EXCEPT !.pc = "done",
                             !.w = HttpError(@, "No matching route found", StatusBadGateway),
                             !.lookups = @ + 1]
         /\ ct' = ct
    ELSE /\ sv' = [sv EXCEPT !.pc = "tunnel", !.node = [gen |-> routes.ptr, ptr |-> res.node],
                             !.lookups = @ + 1,
                             !.found = Deref(heap, routes.ptr, res.node)]
         /\ ct' = [CtIdle EXCEPT !.pc = "dial",
                                 !.via = IF Deref(heap, routes.ptr, res.node).proxy # NoProxy
                                         THEN "proxy" ELSE "direct"]

handleConnect ==
    /\ sv.pc = "handleConnect"
    /\ RLock(rmu)
    /\ UNCHANGED <<routerVars, stop, pf, rl, fc>>
    /\ handleConnectMatched(RouterMatch(sv.req))

\* a connectThroughProxy that returns its error without proxyConn.Close()
ConnectFailedNoClose(why) ==
    /\ sv' = [sv EXCEPT !.pc = "done",
                        !.w = HttpError(@, "Failed to connect to target", StatusBadGateway)]
    /\ ct' = [ct EXCEPT !.pc = "failed", !.ioerr = why]

\* handleConnect's reply when no target connection was obtained
ConnectFailed(why) ==
    /\ sv' = [sv EXCEPT !.pc = "done",
                        !.w = HttpError(@, "Failed to connect to target", StatusBadGateway)]
    /\ ct' = [ct EXCEPT !.pc = "failed", !.ioerr = why,
                        !.conn = IF @ = "open" THEN "closed" ELSE @]

\* net.DialTimeout, to the proxy or to the backend
ConnectDial(ok) ==
    /\ ct.pc = "dial"
    /\ UNCHANGED <<routerVars, stop, pf, rl, fc>>
    /\ IF ok
       THEN /\ ct' = [ct EXCEPT !.conn = "open",
                                !.pc = IF ct.via = "proxy" THEN "write" ELSE "hijack"]
            /\ sv' = [sv EXCEPT !.dials = Append(@, DialFor(ServedNode))]
       ELSE /\ ct' = [ct EXCEPT !.pc = "failed", !.ioerr = "dial"]
            /\ sv' = [sv EXCEPT !.pc = "done",
                                !.dials = Append(@, DialFor(ServedNode)),
                                !.w = HttpError(@, "Failed to connect to target", StatusBadGateway)]

\* proxyConn.Write of the CONNECT request
ProxyWrite(ok) ==
    /\ ct.pc = "write"
    /\ UNCHANGED <<routerVars, stop, pf, rl, fc>>
    /\ IF ok THEN ct' = [ct EXCEPT !.pc = "read"] /\ sv' = sv
       ELSE ConnectFailed("write")

\* the proxy answers: the first k bytes arrive, the rest is on its way
ProxyReplies(resp, k) ==
    /\ ct.pc = "read"
    /\ UNCHANGED <<routerVars, stop, pf, rl, fc>>
    /\ ct.sent = Empty
    /\ ct' = [ct EXCEPT !.sent = resp, !.wire = SubSeq(resp, 1, k),
                        !.pending = SubSeq(resp, k + 1, Len(resp))]
    /\ sv' = sv

\* the rest of the proxy's answer arrives
ProxyFlush ==
    /\ ct.conn = "open"
    /\ UNCHANGED <<routerVars, stop, pf, rl, fc>>
    /\ ct.pending # Empty
    /\ ct' = [ct EXCEPT !.wire = @ \o ct.pending, !.pending = Empty]
    /\ sv' = sv

\* the backend is connected to the far end of ct.conn
BackendConnected ==
    /\ ct.conn = "open"
    /\ \/ ct.via = "direct"
       \/ ct.via = "proxy" /\ ct.sent # Empty /\ ct.pending = Empty
          /\ ProxyStatus(ct.sent) = <<"2", "0", "0">>

\* the backend sends its next byte
BackendSends ==
    /\ BackendConnected
    /\ UNCHANGED <<routerVars, stop, pf, rl, fc>>
    /\ Len(ct.backendSent) < MaxBytes
    /\ ct' = [ct EXCEPT !.backendSent = Append(@, BackendBytes[Len(@) + 1]),
                        !.wire = Append(@, BackendBytes[Len(ct.backendSent) + 1])]
    /\ sv' = sv

\* connectThroughProxy after proxyConn.Read returned response
ProxyReadChecked(response) ==
    IF ProxyResponseOK(response)
    THEN /\ ct' = [ct EXCEPT !.pc = "hijack", !.response = response,
                             !.wire = SubSeq(@, Len(response) + 1, Len(@))]
         /\ sv' = sv
    ELSE /\ ct' = [ct EXCEPT !.pc = "failed", !.ioerr = "status", !.conn = "closed",
                             !.response = response,
                             !.wire = SubSeq(@, Len(response) + 1, Len(@))]
         /\ sv' = [sv EXCEPT !.pc = "done",
                             !.w = HttpError(@, "Failed to connect to target", StatusBadGateway)]

\* proxyConn.Read into buf: an error, or the bytes that have arrived, at
\* most len(buf) of them
ProxyRead(ok) ==
    /\ ct.pc = "read"
    /\ UNCHANGED <<routerVars, stop, pf, rl, fc>>
    /\ IF ok
       THEN ct.wire # Empty /\ ProxyReadChecked(SubSeq(ct.wire, 1, Min(Len(ct.wire), BufSize)))
       ELSE ConnectFailed("read")

\* handleConnect that goes on to write its 200 line whatever the type
\* assertion and Hijack() returned
ConnectHijackUnchecked(outcome) ==
    /\ ct.pc = "hijack"
    /\ UNCHANGED <<routerVars, stop, pf, rl, fc>>
    /\ sv' = [sv EXCEPT !.hijacked = (outcome = "ok")]
    /\ ct' = [ct EXCEPT !.pc = "write200"]

\* w.(http.Hijacker) and Hijack()
ConnectHijack(outcome) ==
    /\ ct.pc = "hijack"
    /\ UNCHANGED <<routerVars, stop, pf, rl, fc>>
    /\ CASE outcome = "ok" ->
              /\ sv' = [sv EXCEPT !.hijacked = TRUE]
              /\ ct' = [ct EXCEPT !.pc = "write200"]
         [] outcome = "unsupported" ->
              /\ sv' = [sv EXCEPT !.pc = "done",
                           !.w = HttpError(@, "Hijacking not supported", StatusInternalServerError)]
              /\ ct' = [ct EXCEPT !.pc = "failed", !.conn = "closed",
                                  !.ioerr = "hijack_unsupported"]
         [] outcome = "failed" ->
              /\ sv' = [sv EXCEPT !.pc = "done",
                           !.w = HttpError(@, "Failed to hijack connection", StatusInternalServerError)]
              /\ ct' = [ct EXCEPT !.pc = "failed", !.conn = "closed", !.ioerr = "hijack_failed"]

\* clientConn.Write of "HTTP/1.1 200 Connection Established"
ConnectWrite200(ok) ==
    /\ ct.pc = "write200"
    /\ UNCHANGED <<routerVars, stop, pf, rl, fc>>
    /\ IF ok
       THEN ct' = [ct EXCEPT !.pc = "relay", !.line200 = TRUE] /\ sv' = sv
       ELSE /\ ct' = [ct EXCEPT !.pc = "failed", !.conn = "closed", !.ioerr = "write200"]
            /\ sv' = [sv EXCEPT !.pc = "done"]

\* the client sends its next byte into the tunnel
ClientSends ==
    /\ ct.pc = "relay"
    /\ UNCHANGED <<routerVars, stop, pf, rl, fc>>
    /\ Len(ct.clientSent) < MaxBytes
    /\ ct' = [ct EXCEPT !.clientSent = Append(@, ClientBytes[Len(@) + 1]),
                        !.cwire = Append(@, ClientBytes[Len(ct.clientSent) + 1])]
    /\ sv' = sv

\* io.Copy(targetConn, clientConn) moves what the client has sent
CopyToTarget ==
    /\ ct.pc = "relay"
    /\ UNCHANGED <<routerVars, stop, pf, rl, fc>>
    /\ ct.cwire # Empty
    /\ ct' = [ct EXCEPT !.toTarget = @ \o ct.cwire, !.cwire = Empty]
    /\ sv' = sv

\* io.Copy(clientConn, targetConn) moves what has arrived on ct.conn
CopyToClient ==
    /\ ct.pc = "relay"
    /\ UNCHANGED <<routerVars, stop, pf, rl, fc>>
    /\ ct.wire # Empty
    /\ ct' = [ct EXCEPT !.toClient = @ \o ct.wire, !.wire = Empty]
    /\ sv' = sv

\* one side closes, a copy ends, handleConnect returns and closes both
TunnelClose ==
    /\ ct.pc = "relay"
    /\ UNCHANGED <<routerVars, stop, pf, rl, fc>>
    /\ ct' = [ct EXCEPT !.pc = "closed", !.conn = "closed"]
    /\ sv' = [sv EXCEPT !.pc = "done"]

\* the handler has returned; the next request is accepted
Finish ==
    /\ sv.pc = "done"
    /\ UNCHANGED <<routerVars, stop, pf, rl, fc>>
    /\ sv' = SvIdle
    /\ ct' = CtIdle

NextServe ==
    \/ \E r \in ServeRequests : Accept(r)
    \/ ServeHTTP
    \/ handleHTTP
    \/ \E outcome \in ForwardOutcomes, st \in UpstreamStatuses : Forward(outcome, st)
    \/ handleWebSocket
    \/ \E ok \in BOOLEAN : WebSocketUpgrade(ok)
    \/ \E ok \in BOOLEAN : WebSocketDial(ok)
    \/ WebSocketClose
    \/ handleConnect
    \/ \E ok \in BOOLEAN : ConnectDial(ok)
    \/ \E ok \in BOOLEAN : ProxyWrite(ok)
    \/ \E resp \in ProxyResponses : \E k \in 1..Len(resp) : ProxyReplies(resp, k)
    \/ ProxyFlush
    \/ BackendSends
    \/ \E ok \in BOOLEAN : ProxyRead(ok)
    \/ \E outcome \in {"ok", "unsupported", "failed"} : ConnectHijack(outcome)
    \/ \E ok \in BOOLEAN : ConnectWrite200(ok)
    \/ ClientSends
    \/ CopyToTarget
    \/ CopyToClient
    \/ TunnelClose
    \/ Finish

(***************************************************************************)
(* router.ParseRule applied to rule strings, the tree evaluated on         *)
(* requests, and Router.UpdateRoutes on a node with the rule               *)
(***************************************************************************)
RuleA == <<"H", "o", "s", "t", "{", "a", "}">>
RuleB == <<"P", "a", "t", "h", "{", "/", "b", "}">>
RuleC == <<"M", "e", "t", "h", "o", "d", "{", "G", "E", "T", "}">>

\* rule strings that combine RuleA, RuleB, RuleC
PrecedenceRules ==
    { RuleA \o <<" ", "|", "|", " ">> \o RuleB \o <<" ", "&", "&", " ">> \o RuleC,
      <<"!">> \o RuleA \o <<" ", "&", "&", " ">> \o RuleB,
      <<"(">> \o RuleA \o <<" ", "|", "|", " ">> \o RuleB \o <<")", " ", "&", "&", " ">> \o RuleC,
      RuleA \o <<" ", "&", "&", " ">> \o RuleB \o <<" ", "|", "|", " ">> \o RuleC,
      RuleA \o <<" ", "|", "|", " ">> \o RuleB \o <<" ", "|", "|", " ">> \o RuleC,
      RuleA \o <<" ", "&", "&", " ">> \o RuleB \o <<" ", "&", "&", " ">> \o RuleC,
      <<"!">> \o RuleA \o <<" ", "|", "|", " ">> \o RuleB,
      <<"!", "(">> \o RuleA \o <<" ", "|", "|", " ">> \o RuleB \o <<")">>,
      <<"!", "!">> \o RuleA,
      RuleA \o <<" ", "&", "&", " ">> \o <<"(">> \o RuleB \o <<" ", "|", "|", " ">> \o RuleC \o <<")">>,
      RuleA \o <<"&", "&", "!">> \o RuleB \o <<"|", "|">> \o RuleC }

\* rule strings with one defect each
FailureRules ==
    { [mode |-> "unknown matcher name", text |-> <<"B", "o", "g", "u", "s", "{", "x", "}">>],
      [mode |-> "unknown matcher name", text |-> <<"H", "o", "s", "t", "{", "a", "}", " ", "&", "&", " ", "B", "o", "g", "u", "s", "{", "x", "}">>],
      [mode |-> "unknown matcher name", text |-> <<"!", "B", "o", "g", "u", "s", "{", "x", "}">>],
      [mode |-> "no brace after the name", text |-> <<"H", "o", "s", "t">>],
      [mode |-> "no brace after the name", text |-> <<"H", "o", "s", "t", " ", "a", "}">>],
      [mode |-> "no brace after the name", text |-> <<"P", "a", "t", "h", "{", "/", "b", "}", " ", "|", "|", " ", "H", "o", "s", "t">>],
      [mode |-> "unmatched braces", text |-> <<"H", "o", "s", "t", "{", "a">>],
      [mode |-> "unmatched braces", text |-> <<"H", "o", "s", "t", "{", "a", "{", "b", "}">>],
      [mode |-> "no closing parenthesis", text |-> <<"(", "H", "o", "s", "t", "{", "a", "}">>],
      [mode |-> "no closing parenthesis", text |-> <<"(", "H", "o", "s", "t", "{", "a", "}", " ", "|", "|", " ", "P", "a", "t", "h", "{", "/", "b", "}">>],
      [mode |-> "no closing parenthesis", text |-> <<"H", "o", "s", "t", "{", "a", "}", " ", "&", "&", " ", "(", "P", "a", "t", "h", "{", "/", "b", "}">>],
      [mode |-> "no = in the payload", text |-> <<"H", "e", "a", "d", "e", "r", "{", "X", "-", "E", "n", "v", "}">>],
      [mode |-> "no = in the payload", text |-> <<"H", "e", "a", "d", "e", "r", "R", "e", "g", "e", "x", "{", "X", "-", "E", "n", "v", "}">>],
      [mode |-> "no = in the payload", text |-> <<"Q", "u", "e", "r", "y", "{", "v", "}">>],
      [mode |-> "invalid regex", text |-> <<"H", "e", "a", "d", "e", "r", "R", "e", "g", "e", "x", "{", "X", "-", "E", "n", "v", "=", "(", "a", "}">>],
      [mode |-> "invalid regex", text |-> <<"H", "e", "a", "d", "e", "r", "R", "e", "g", "e", "x", "{", "X", "-", "E", "n", "v", "=", "*", "a", "}">>] }

\* a rule string (base) and the same tokens with other blanks between them
WhitespaceRules ==
    { [base |-> RuleA, text |-> <<"H", "o", "s", "t", " ", "{", "a", "}">>],
      [base |-> RuleA, text |-> <<"H", "o", "s", "t", "\t", "{", "a", "}">>],
      [base |-> RuleA, text |-> <<"H", "o", "s", "t", "\n", "{", "a", "}">>],
      [base |-> RuleA, text |-> <<"H", "o", "s", "t", "\r", "{", "a", "}">>],
      [base |-> RuleA, text |-> <<"\t">> \o RuleA \o <<"\r", "\n">>],
      [base |-> <<"!">> \o RuleA, text |-> <<"!", "\t", " ">> \o RuleA],
      [base |-> <<"(">> \o RuleA \o <<")">>, text |-> <<"(", "\n">> \o RuleA \o <<"\t", ")">>],
      [base |-> RuleA \o <<"&", "&">> \o RuleB,
       text |-> RuleA \o <<"\t", "&", "&", "\n">> \o RuleB],
      [base |-> RuleA \o <<"|", "|">> \o RuleB,
       text |-> RuleA \o <<"\r", "\n", "|", "|", "\t">> \o RuleB],
      [base |-> RuleA \o <<" ", "&", "&", " ">> \o RuleB,
       text |-> RuleA \o <<"&", "&">> \o RuleB],
      [base |-> RuleA \o <<" ", "|", "|", " ">> \o <<"(">> \o RuleB \o <<")">>,
       text |-> RuleA \o <<"|", "|", "(">> \o RuleB \o <<")">>] }

ParseTexts ==
    PrecedenceRules \cup {x.text : x \in FailureRules} \cup {x.text : x \in WhitespaceRules}

\* requests that give the three matchers every combination of results
ParseRequests ==
    { Request(m, h, q, NoHeader) :
        m \in {MethodGet, <<"P", "U", "T">>},
        h \in {<<"a">>, <<"z">>},
        q \in {<<"/", "b">>, <<"/">>} }

ParseInputs == { [pc |-> "input", text |-> x, r |-> r] : x \in ParseTexts, r \in ParseRequests }

\* the services of a configuration whose only node has the matcher rule text
ServicesWithRule(text) ==
    << RawService("S1", << [NodeC EXCEPT !.matcher = Matcher(text)] >>) >>

\* ParseRule is called and, when it returned a rule, the rule is evaluated
ParseApplied(res) ==
    pf' = [pc |-> "parsed", text |-> pf.text, r |-> pf.r, res |-> res,
           match |-> IF res.err THEN FALSE ELSE RuleMatch(res.rule, pf.r)]

ParseApply ==
    /\ pf.pc = "input"
    /\ ParseApplied(ParseRule(pf.text))
    /\ UNCHANGED <<routerVars, sv, ct, stop, rl, fc>>

\* UpdateRoutes is called with a node that carries the rule
BuildApply ==
    /\ pf.pc = "input"
    /\ pf' = [pc |-> "built", text |-> pf.text, r |-> pf.r,
              err |-> UpdateRoutesBuild(ServicesWithRule(pf.text)).err]
    /\ UNCHANGED <<routerVars, sv, ct, stop, rl, fc>>

NextParse ==
    \/ ParseApply
    \/ BuildApply

(***************************************************************************)
(* Server.Stop                                                             *)
(*                                                                         *)
(* Stop calls srv.Shutdown(ctx) for every http.Server and waits for the    *)
(* calls to return.  http.Server.Shutdown closes the listeners and the     *)
(* idle connections and waits until the connections it tracks are idle or  *)
(* ctx is done; a hijacked connection is no longer tracked.  When ctx is   *)
(* done first it returns ctx.Err() and leaves the active connections open. *)
(* stop.relay records whether a tunnel or bridge was copying when Stop     *)
(* began.                                                                  *)
(***************************************************************************)
\* a handler is running inside ServeHTTP
HandlerRunning == sv.pc \notin {"idle", "done"}

\* a CONNECT tunnel or a WebSocket bridge is copying
RelayCopying == sv.pc = "bridge" \/ ct.pc = "relay"

\* the connection of the request is one Shutdown waits for
Tracked == HandlerRunning /\ ~sv.hijacked

\* Server.Stop is called: s.mu.Lock() and the Shutdown goroutines start
StopBegin ==
    /\ stop.pc = "running"
    /\ ~ServerMuByReload
    /\ stop' = [stop EXCEPT !.pc = "shutdown", !.relay = RelayCopying]
    /\ UNCHANGED <<routerVars, sv, ct, pf, rl, fc>>

\* every Shutdown returned nil: Stop closes the forwarder and returns nil
StopDrained ==
    /\ stop.pc = "shutdown"
    /\ ~Tracked
    /\ stop' = [stop EXCEPT !.pc = "returned", !.result = "nil"]
    /\ UNCHANGED <<routerVars, sv, ct, pf, rl, fc>>

\* the deadline of ctx passes while a tracked connection is active: Shutdown
\* returns the error of ctx and Stop returns "errors during shutdown"
StopDeadline ==
    /\ stop.pc = "shutdown"
    /\ Tracked
    /\ stop' = [stop EXCEPT !.pc = "returned", !.result = "error"]
    /\ UNCHANGED <<routerVars, sv, ct, pf, rl, fc>>

\* requests being served while the server is stopped
NextStop ==
    \/ NextServe
    \/ StopBegin
    \/ StopDrained
    \/ StopDeadline

(***************************************************************************)
(* The outbound request of Forwarder.Forward and the backend URL of        *)
(* Server.handleWebSocket, as functions of the request and the node        *)
(***************************************************************************)
Digits == {"0", "1", "2", "3", "4", "5", "6", "7", "8", "9"}

\* copyHeaders: every value of every key of src is added to dst, in order
copyHeaders(dst, src) ==
    [k \in DOMAIN dst \cup DOMAIN src |->
        (IF k \in DOMAIN dst THEN dst[k] ELSE << >>)
            \o (IF k \in DOMAIN src THEN src[k] ELSE << >>)]

\* the loop of Forward that moves colonIdx back to the last ':' (0-based, -1
\* when there is none)
RECURSIVE scanColon(_, _)
scanColon(addr, colonIdx) ==
    IF colonIdx >= 0 /\ addr[colonIdx + 1] # ":" THEN scanColon(addr, colonIdx - 1)
    ELSE colonIdx

\* proxyReq.Host as Forward sets it
proxyReqHost(addr) ==
    IF Len(addr) - 1 >= 0 /\ addr[Len(addr)] \in Digits /\ scanColon(addr, Len(addr) - 1) > 0
    THEN Slice(addr, 0, scanColon(addr, Len(addr) - 1))
    ELSE addr

\* url.URL.RequestURI of a request received in origin form
RequestURI(r) ==
    (IF r.path = Empty THEN <<"/">> ELSE r.path)
        \o (IF r.rawQuery = Empty THEN Empty ELSE <<"?">> \o r.rawQuery)

\* buildTargetURL with the scheme fixed
buildTargetURLPlain(r, node) ==
    <<"h", "t", "t", "p">> \o <<":", "/", "/">> \o node.addr \o RequestURI(r)

\* Forwarder.buildTargetURL
buildTargetURL(r, node) ==
    (IF ~r.tls THEN <<"h", "t", "t", "p">> ELSE <<"h", "t", "t", "p", "s">>)
        \o <<":", "/", "/">> \o node.addr \o RequestURI(r)

\* backendURL of handleWebSocket
backendURL(r, node) ==
    (IF ~r.tls THEN <<"w", "s">> ELSE <<"w", "s", "s">>)
        \o <<":", "/", "/">> \o node.addr \o RequestURI(r)

\* the last 0-based position of c in s, -1 when there is none
LastIndexByte(s, c) ==
    IF \E i \in 1..Len(s) : s[i] = c
    THEN (CHOOSE i \in 1..Len(s) : s[i] = c /\ \A j \in (i + 1)..Len(s) : s[j] # c) - 1
    ELSE -1

\* net/url validOptionalPort: empty, or ':' followed by digits only
validOptionalPort(port) ==
    port = Empty \/ (port[1] = ":" /\ \A i \in 2..Len(port) : port[i] \in Digits)

\* http.NewRequest parses the target URL; url.Parse (Go 1.21) accepts the
\* authority when what follows the ']' of a bracketed host, or the last ':'
\* of another host, is an optional port
NewRequestOk(addr) ==
    IF HasPrefix(addr, <<"[">>)
    THEN /\ LastIndexByte(addr, "]") >= 0
         /\ validOptionalPort(Slice(addr, LastIndexByte(addr, "]") + 1, Len(addr)))
    ELSE \/ LastIndexByte(addr, ":") = -1
         \/ validOptionalPort(Slice(addr, LastIndexByte(addr, ":"), Len(addr)))

NoOutbound == [err |-> TRUE, url |-> Empty, host |-> Empty, header |-> << >>]

\* proxyReq of Forward when it reaches client.Do
ForwardRequest(r, node) ==
    IF ~NewRequestOk(node.addr) THEN NoOutbound
    ELSE [err |-> FALSE, url |-> buildTargetURL(r, node),
          host |-> proxyReqHost(node.addr), header |-> copyHeaders(<< >>, r.header)]

\* the node addresses: name:port, name, name ending in a digit, IPv4 with
\* and without port, bracketed IPv6 with and without port, unbracketed IPv6
ForwardAddrs ==
    { <<"h", "1", ":", "8", "0">>,
      <<"h", "o", "s", "t">>,
      <<"h", "1">>,
      <<"1", "0", ".", "0", ".", "0", ".", "1", ":", "8", "0">>,
      <<"1", "0", ".", "0", ".", "0", ".", "1">>,
      <<"[", ":", ":", "1", "]", ":", "8", "0">>,
      <<"[", ":", ":", "1", "]">>,
      <<"2", "0", "0", "1", ":", "d", "b", "8", ":", ":", "1">>,
      <<":", ":", "1">> }

\* the nodes config.validateNode accepts with these addresses
ForwardNodes ==
    {n \in {[NodeA EXCEPT !.addr = a] : a \in ForwardAddrs} : validateNode(n)}

HdrAccept == <<"A", "c", "c", "e", "p", "t">>
HdrCookie == <<"C", "o", "o", "k", "i", "e">>

\* header maps: none, one name with two values and one with one value
ForwardHeaders ==
    { NoHeader,
      [k \in {HdrAccept, HdrCookie} |->
          IF k = HdrAccept THEN << <<"a">>, <<"b">> >> ELSE << <<"c", "=", "1">> >>] }

\* request targets as sent, with the path and query the server parsed
ForwardTargets ==
    { [target |-> <<"/">>, path |-> <<"/">>, rawQuery |-> Empty],
      [target |-> <<"/", "v", "1", "?", "x", "=", "1">>, path |-> <<"/", "v", "1">>,
       rawQuery |-> <<"x", "=", "1">>] }

ForwardInputs ==
    { [pc |-> "input", node |-> n, target |-> t.target,
       r |-> [Request(MethodGet, <<"a">>, t.path, h) EXCEPT !.rawQuery = t.rawQuery, !.tls = tls]] :
         n \in ForwardNodes, t \in ForwardTargets, h \in ForwardHeaders, tls \in BOOLEAN }

\* Forward builds its outbound request
ForwardBuild ==
    /\ pf.pc = "input"
    /\ pf' = [pc |-> "forward", node |-> pf.node, target |-> pf.target, r |-> pf.r,
              out |-> ForwardRequest(pf.r, pf.node)]
    /\ UNCHANGED <<routerVars, sv, ct, stop, rl, fc>>

\* handleWebSocket builds the URL it dials
WebSocketBuild ==
    /\ pf.pc = "input"
    /\ pf' = [pc |-> "websocket", node |-> pf.node, target |-> pf.target, r |-> pf.r,
              out |-> [err |-> FALSE, url |-> backendURL(pf.r, pf.node)]]
    /\ UNCHANGED <<routerVars, sv, ct, stop, rl, fc>>

NextForward ==
    \/ ForwardBuild
    \/ WebSocketBuild

(***************************************************************************)
(* The relay of handleConnect and of handleWebSocket, from the statement   *)
(* that makes errCh to the handler's return: the two copy goroutines, the  *)
(* result channel, the two connections and their peers.  Goroutine 1       *)
(* copies from the client to the target (the backend), goroutine 2 from    *)
(* the target to the client.                                               *)
(*                                                                         *)
(* A connection is "open", "eof" (its peer has closed or reset it: a read  *)
(* returns io.EOF or an error once what the peer sent is read) or "closed" *)
(* (closed by the handler: reads and writes fail).                         *)
(*                                                                         *)
(* websocket.Conn.ReadMessage returns text and binary messages only: it    *)
(* answers a ping with a pong to the sender, drops a pong, and answers a   *)
(* close frame with a close frame to the sender and returns a CloseError.  *)
(***************************************************************************)
\* the frames the two peers of a bridge send, together
MaxFrames == 2

\* errCh := make(chan error, 2)
ErrChCap == 2

Sides == {"client", "target"}

Src(i) == IF i = 1 THEN "client" ELSE "target"
Dst(i) == IF i = 1 THEN "target" ELSE "client"

FrameTypes == {"text", "binary", "ping", "pong", "close"}

NoFrame == [type |-> "none", payload |-> 0]

\* sent[s]: the frames the peer of side s has sent; nread[s]: how many of
\* them the bridge has read; held[i]: the message ReadMessage returned to
\* goroutine i and WriteMessage has not yet written; fwd[i]: the frames
\* goroutine i has written to its destination; reply[s]: the frames the
\* bridge itself has written back to side s
RlIdle ==
    [kind |-> "none", h |-> "idle", g |-> <<"idle", "idle">>, errCh |-> 0,
     conn |-> [s \in Sides |-> "none"],
     sent |-> [s \in Sides |-> << >>],
     nread |-> [s \in Sides |-> 0],
     held |-> <<NoFrame, NoFrame>>,
     fwd |-> << << >>, << >> >>,
     reply |-> [s \in Sides |-> << >>]]

\* the handler makes errCh, starts the two goroutines and waits on <-errCh
RelayStart(kind) ==
    /\ rl.h = "idle"
    /\ rl' = [RlIdle EXCEPT !.kind = kind, !.h = "wait", !.g = <<"copy", "copy">>,
                            !.conn = [s \in Sides |-> "open"]]
    /\ UNCHANGED <<routerVars, sv, ct, stop, pf, fc>>

\* the peer of side s closes or resets its connection
PeerCloses(s) ==
    /\ rl.conn[s] = "open"
    /\ rl' = [rl EXCEPT !.conn[s] = "eof"]
    /\ UNCHANGED <<routerVars, sv, ct, stop, pf, fc>>

\* the peer of side s sends a WebSocket frame; nothing follows a close frame
PeerSends(s, t) ==
    /\ rl.kind = "websocket"
    /\ rl.conn[s] = "open"
    /\ Len(rl.sent["client"]) + Len(rl.sent["target"]) < MaxFrames
    /\ \A k \in 1..Len(rl.sent[s]) : rl.sent[s][k].type # "close"
    /\ rl' = [rl EXCEPT !.sent[s] = Append(@, [type |-> t, payload |-> Len(@) + 1])]
    /\ UNCHANGED <<routerVars, sv, ct, stop, pf, fc>>

\* io.Copy of goroutine i returns: its Read got io.EOF or an error
CopyReadEnds(i) ==
    /\ rl.kind = "connect"
    /\ rl.g[i] = "copy"
    /\ rl.conn[Src(i)] # "open"
    /\ rl' = [rl EXCEPT !.g[i] = "send"]
    /\ UNCHANGED <<routerVars, sv, ct, stop, pf, fc>>

\* io.Copy of goroutine i returns: bytes arrived and its Write failed
CopyWriteFails(i) ==
    /\ rl.kind = "connect"
    /\ rl.g[i] = "copy"
    /\ rl.conn[Src(i)] = "open"
    /\ rl.conn[Dst(i)] # "open"
    /\ rl' = [rl EXCEPT !.g[i] = "send"]
    /\ UNCHANGED <<routerVars, sv, ct, stop, pf, fc>>

\* what src.ReadMessage of goroutine i does with the next frame f of its
\* source
ReadMessageFrame(i, f) ==
    CASE f.type \in {"text", "binary"} ->
           [rl EXCEPT !.nread[Src(i)] = @ + 1, !.held[i] = f]
      [] f.type = "ping" ->
           IF rl.conn[Src(i)] = "open"
           THEN [rl EXCEPT !.nread[Src(i)] = @ + 1,
                           !.reply[Src(i)] = Append(@, [f EXCEPT !.type = "pong"])]
           ELSE [rl EXCEPT !.nread[Src(i)] = @ + 1, !.g[i] = "send"]
      [] f.type = "pong" ->
           [rl EXCEPT !.nread[Src(i)] = @ + 1]
      [] f.type = "close" ->
           [rl EXCEPT !.nread[Src(i)] = @ + 1, !.g[i] = "send",
                      !.reply[Src(i)] = IF rl.conn[Src(i)] = "open" THEN Append(@, f) ELSE @]

\* copyWebSocket of goroutine i: src.ReadMessage() reads the next frame
ReadMessage(i) ==
    /\ rl.kind = "websocket"
    /\ rl.g[i] = "copy"
    /\ rl.held[i] = NoFrame
    /\ rl.conn[Src(i)] # "closed"
    /\ rl.nread[Src(i)] < Len(rl.sent[Src(i)])
    /\ rl' = ReadMessageFrame(i, rl.sent[Src(i)][rl.nread[Src(i)] + 1])
    /\ UNCHANGED <<routerVars, sv, ct, stop, pf, fc>>

\* copyWebSocket of goroutine i: src.ReadMessage() returns an error
ReadFails(i) ==
    /\ rl.kind = "websocket"
    /\ rl.g[i] = "copy"
    /\ rl.held[i] = NoFrame
    /\ \/ rl.conn[Src(i)] = "closed"
       \/ rl.conn[Src(i)] = "eof" /\ rl.nread[Src(i)] = Len(rl.sent[Src(i)])
    /\ rl' = [rl EXCEPT !.g[i] = "send"]
    /\ UNCHANGED <<routerVars, sv, ct, stop, pf, fc>>

\* copyWebSocket of goroutine i: dst.WriteMessage(messageType, message); it
\* fails on a connection the handler closed and can fail on one the peer
\* closed
WriteMessage(i, ok) ==
    /\ rl.kind = "websocket"
    /\ rl.g[i] = "copy"
    /\ rl.held[i] # NoFrame
    /\ ok => rl.conn[Dst(i)] # "closed"
    /\ ~ok => rl.conn[Dst(i)] # "open"
    /\ rl' = IF ok THEN [rl EXCEPT !.fwd[i] = Append(@, rl.held[i]), !.held[i] = NoFrame]
             ELSE [rl EXCEPT !.held[i] = NoFrame, !.g[i] = "send"]
    /\ UNCHANGED <<routerVars, sv, ct, stop, pf, fc>>

\* errCh <- err on an unbuffered errCh: the send completes when the handler
\* is receiving
SendUnbuffered(i) ==
    /\ rl.g[i] = "send"
    /\ rl.h = "wait"
    /\ rl' = [rl EXCEPT !.g[i] = "exited", !.h = "close1"]
    /\ UNCHANGED <<routerVars, sv, ct, stop, pf, fc>>

\* errCh <- err of goroutine i, which then exits: the value goes into the
\* buffer when there is room, else to the handler when it is receiving
Send(i) ==
    /\ rl.g[i] = "send"
    /\ IF rl.errCh < ErrChCap
       THEN rl' = [rl EXCEPT !.g[i] = "exited", !.errCh = @ + 1]
       ELSE /\ rl.h = "wait"
            /\ rl' = [rl EXCEPT !.g[i] = "exited", !.h = "close1"]
    /\ UNCHANGED <<routerVars, sv, ct, stop, pf, fc>>

\* err = <-errCh of the handler
HandlerReceives ==
    /\ rl.h = "wait"
    /\ rl.errCh > 0
    /\ rl' = [rl EXCEPT !.h = "close1", !.errCh = @ - 1]
    /\ UNCHANGED <<routerVars, sv, ct, stop, pf, fc>>

\* the handler returns and its deferred Close calls run, last deferred
\* first: clientConn then targetConn in handleConnect, backendConn then
\* clientConn in handleWebSocket
FirstClosed == IF rl.kind = "connect" THEN "client" ELSE "target"
SecondClosed == IF rl.kind = "connect" THEN "target" ELSE "client"

HandlerClose1 ==
    /\ rl.h = "close1"
    /\ rl' = [rl EXCEPT !.h = "close2", !.conn[FirstClosed] = "closed"]
    /\ UNCHANGED <<routerVars, sv, ct, stop, pf, fc>>

\* a handler that returns without closing the connection it deferred first
HandlerClose2NoClose ==
    /\ rl.h = "close2"
    /\ rl' = [rl EXCEPT !.h = "returned"]
    /\ UNCHANGED <<routerVars, sv, ct, stop, pf, fc>>

HandlerClose2 ==
    /\ rl.h = "close2"
    /\ rl' = [rl EXCEPT !.h = "returned", !.conn[SecondClosed] = "closed"]
    /\ UNCHANGED <<routerVars, sv, ct, stop, pf, fc>>

NextRelay ==
    \/ \E kind \in {"connect", "websocket"} : RelayStart(kind)
    \/ \E s \in Sides : PeerCloses(s)
    \/ \E s \in Sides, t \in FrameTypes : PeerSends(s, t)
    \/ \E i \in 1..2 : CopyReadEnds(i)
    \/ \E i \in 1..2 : CopyWriteFails(i)
    \/ \E i \in 1..2 : ReadMessage(i)
    \/ \E i \in 1..2 : ReadFails(i)
    \/ \E i \in 1..2, ok \in BOOLEAN : WriteMessage(i, ok)
    \/ \E i \in 1..2 : Send(i)
    \/ HandlerReceives
    \/ HandlerClose1
    \/ HandlerClose2

(***************************************************************************)
(* Forwarder.clients, the map of HTTP clients by proxy URL                 *)
(*                                                                         *)
(* A handle is the number of the createClient call that made it, 0 for no  *)
(* entry.  A map access takes time: acc[p] is "read" or "write" while      *)
(* caller p is inside it.  Caller 0 is the goroutine of Server.Stop.       *)
(***************************************************************************)
\* the concurrent Forward calls
NCallers == 2

\* the createClient calls
MaxClients == 3

Callers == 1..NCallers

\* getClient's key: the proxy URL, "direct" for a node without proxy
ClientKey(proxy) ==
    IF proxy = NoProxy THEN [direct |-> TRUE, url |-> NoProxy]
    ELSE [direct |-> FALSE, url |-> proxy]

ProxyQ == [scheme |-> "https", host |-> <<"q", ":", "4", "4", "3">>]

ClientKeys == {ClientKey(x) : x \in {NoProxy, ProxyP, ProxyQ}}

NoKey == [direct |-> FALSE, url |-> NoProxy]

CallerIdle == [pc |-> "idle", key |-> NoKey, h |-> 0]

\* NewForwarder: an empty map.  first[k] is the first handle stored under k
FcInit ==
    [clients |-> [k \in ClientKeys |-> 0],
     first |-> [k \in ClientKeys |-> 0],
     made |-> 0,
     g |-> [p \in Callers |-> CallerIdle],
     acc |-> [p \in {0} \cup Callers |-> "none"],
     closes |-> 0,
     fatal |-> FALSE]

\* nobody is inside getClient or Close
NobodyInside ==
    /\ \A p \in Callers : fc.g[p].pc = "idle"
    /\ fc.acc[0] = "none"

\* Forward is called with a node of the published table and calls getClient
\* with its proxy
GetClientBegin(p) ==
    /\ ~fc.fatal
    /\ fc.g[p].pc = "idle"
    /\ RLock(rmu)
    /\ \E a \in DOMAIN heap[routes.ptr].mem :
          fc' = [fc EXCEPT !.g[p] = [pc |-> "lookup", h |-> 0,
                                     key |-> ClientKey(heap[routes.ptr].mem[a].proxy)]]
    /\ UNCHANGED <<routerVars, sv, ct, stop, pf, rl>>

\* client, ok := f.clients[proxyURL]: the read begins
MapReadBegin(p) ==
    /\ ~fc.fatal
    /\ fc.g[p].pc = "lookup"
    /\ fc.acc[p] = "none"
    /\ fc' = [fc EXCEPT !.acc[p] = "read"]
    /\ UNCHANGED <<routerVars, sv, ct, stop, pf, rl>>

\* a getClient that creates and stores a client on every call
MapReadEndAlwaysCreates(p) ==
    /\ ~fc.fatal
    /\ fc.g[p].pc = "lookup"
    /\ fc.acc[p] = "read"
    /\ fc' = [fc EXCEPT !.acc[p] = "none", !.g[p].pc = "create"]
    /\ UNCHANGED <<routerVars, sv, ct, stop, pf, rl>>

\* the read ends: the entry is returned, or createClient is called
MapReadEnd(p) ==
    /\ ~fc.fatal
    /\ fc.g[p].pc = "lookup"
    /\ fc.acc[p] = "read"
    /\ fc' = IF fc.clients[fc.g[p].key] # 0
             THEN [fc EXCEPT !.acc[p] = "none", !.g[p].pc = "done",
                             !.g[p].h = fc.clients[fc.g[p].key]]
             ELSE [fc EXCEPT !.acc[p] = "none", !.g[p].pc = "create"]
    /\ UNCHANGED <<routerVars, sv, ct, stop, pf, rl>>

\* createClient returns a new client
CreateClient(p) ==
    /\ ~fc.fatal
    /\ fc.g[p].pc = "create"
    /\ fc.made < MaxClients
    /\ fc' = [fc EXCEPT !.made = @ + 1, !.g[p].h = fc.made + 1, !.g[p].pc = "store"]
    /\ UNCHANGED <<routerVars, sv, ct, stop, pf, rl>>

\* f.clients[proxyURL] = client: the write begins
MapWriteBegin(p) ==
    /\ ~fc.fatal
    /\ fc.g[p].pc = "store"
    /\ fc.acc[p] = "none"
    /\ fc' = [fc EXCEPT !.acc[p] = "write"]
    /\ UNCHANGED <<routerVars, sv, ct, stop, pf, rl>>

\* the write ends: the entry is the new client; getClient returns it
MapWriteEnd(p) ==
    /\ ~fc.fatal
    /\ fc.g[p].pc = "store"
    /\ fc.acc[p] = "write"
    /\ fc' = [fc EXCEPT !.acc[p] = "none", !.g[p].pc = "done",
                        !.clients[fc.g[p].key] = fc.g[p].h,
                        !.first[fc.g[p].key] =
                            IF @ = 0 THEN fc.g[p].h ELSE @]
    /\ UNCHANGED <<routerVars, sv, ct, stop, pf, rl>>

\* Forward goes on with the client and returns
GetClientReturned(p) ==
    /\ ~fc.fatal
    /\ fc.g[p].pc = "done"
    /\ fc' = [fc EXCEPT !.g[p] = CallerIdle]
    /\ UNCHANGED <<routerVars, sv, ct, stop, pf, rl>>

\* Forwarder.Close, called by Server.Stop: the range over f.clients begins
CloseBegin ==
    /\ ~fc.fatal
    /\ fc.closes = 0
    /\ fc.acc[0] = "none"
    /\ fc' = [fc EXCEPT !.acc[0] = "read"]
    /\ UNCHANGED <<routerVars, sv, ct, stop, pf, rl>>

\* the range ends: the idle connections of every client are closed, the map
\* is as it was
CloseEnd ==
    /\ ~fc.fatal
    /\ fc.acc[0] = "read"
    /\ fc' = [fc EXCEPT !.acc[0] = "none", !.closes = @ + 1]
    /\ UNCHANGED <<routerVars, sv, ct, stop, pf, rl>>

\* two goroutines are inside the map at once and one of them writes
MapRace ==
    \E p, q \in {0} \cup Callers :
        p # q /\ fc.acc[p] = "write" /\ fc.acc[q] # "none"

\* the runtime detects the concurrent access and ends the process ("fatal
\* error: concurrent map writes"); it need not detect it
MapFatal ==
    /\ ~fc.fatal
    /\ MapRace
    /\ fc' = [fc EXCEPT !.fatal = TRUE]
    /\ UNCHANGED <<routerVars, sv, ct, stop, pf, rl>>

\* Forward calls one after the other, Close at the end, reloads in between
NextClients ==
    \/ \E p \in Callers : NobodyInside /\ GetClientBegin(p)
    \/ \E p \in Callers : MapReadBegin(p)
    \/ \E p \in Callers : MapReadEnd(p)
    \/ \E p \in Callers : CreateClient(p)
    \/ \E p \in Callers : MapWriteBegin(p)
    \/ \E p \in Callers : MapWriteEnd(p)
    \/ \E p \in Callers : GetClientReturned(p)
    \/ NobodyInside /\ CloseBegin
    \/ CloseEnd
    \/ \E f \in StartFiles : FileWrite(f)
    \/ WatchEvent
    \/ ReloadSteps

\* Forward calls of concurrent requests, and Close
NextClientsConcurrent ==
    \/ \E p \in Callers : GetClientBegin(p)
    \/ \E p \in Callers : MapReadBegin(p)
    \/ \E p \in Callers : MapReadEnd(p)
    \/ \E p \in Callers : CreateClient(p)
    \/ \E p \in Callers : MapWriteBegin(p)
    \/ \E p \in Callers : MapWriteEnd(p)
    \/ \E p \in Callers : GetClientReturned(p)
    \/ CloseBegin
    \/ CloseEnd
    \/ MapFatal

\* the process after main has loaded the configuration from file f, set up
\* the logger, built the server (NewServer calls UpdateRoutes) and started
\* the watcher
InitRouterBuilt(f, c, r) ==
        /\ file = f
        /\ heap = [g \in GenIds |->
                     IF g = 1 THEN [live |-> TRUE, arr |-> r.arr, mem |-> r.mem, from |-> c.services]
                     ELSE FreeSlot]
        /\ routes = [ptr |-> 1, len |-> Len(r.arr)]
        /\ rmu = [writer |-> FALSE, readers |-> {}]
        /\ srvConfig = c
        /\ cfg = c
        /\ logger = [level |-> parseLevel(c.logging.level), output |-> c.logging.output,
                     console |-> (c.logging.format = "text")]
        /\ events = 0
        /\ wpc = "watch"
        /\ wl = WlIdle
        /\ stopped = FALSE
        /\ stopRets = << >>
        /\ rd = [p \in Readers |-> ReaderIdle]
        /\ servers = StartServers(c)

InitRouterLoaded(f, c) == InitRouterBuilt(f, c, UpdateRoutesBuild(c.services))

InitRouter(f) == InitRouterLoaded(f, LoadConfig(Files[f]).cfg)

\* no shutdown requested, no function applied
StopIdle == [pc |-> "running", result |-> "", relay |-> FALSE]

PfIdle == [pc |-> "idle"]

Init ==
    /\ \E f \in StartFiles : InitRouter(f)
    /\ sv = SvIdle
    /\ ct = CtIdle
    /\ stop = StopIdle
    /\ pf = PfIdle
    /\ rl = RlIdle
    /\ fc = FcInit

Next == NextRouter

Spec == Init /\ [][Next]_vars

SpecReload == Init /\ [][NextReload]_vars

SpecServe == Init /\ [][NextServe]_vars

SpecStop == Init /\ [][NextStop]_vars

\* a plain request, a WebSocket upgrade and a CONNECT for each host
InFlightRequests ==
    {Request(MethodGet, h, <<"/">>, hd) : h \in ServeHosts, hd \in {NoHeader, HdrWebSocket}}
    \cup {Request(MethodConnect, h, Empty, NoHeader) : h \in ServeHosts}

\* Requests are served, up to the last step that reads the node Match
\* returned, while the watcher reloads the configuration
NextInFlight ==
    \/ \E r \in InFlightRequests : Accept(r)
    \/ ServeHTTP
    \/ handleHTTP
    \/ \E outcome \in ForwardOutcomes : Forward(outcome, 200)
    \/ handleWebSocket
    \/ \E ok \in BOOLEAN : WebSocketUpgrade(ok)
    \/ \E ok \in BOOLEAN : WebSocketDial(ok)
    \/ WebSocketClose
    \/ handleConnect
    \/ \E ok \in BOOLEAN : ConnectDial(ok)
    \/ Finish
    \/ \E f \in StartFiles : FileWrite(f)
    \/ WatchEvent
    \/ ReloadSteps

SpecInFlight == Init /\ [][NextInFlight]_vars

SpecRelay == Init /\ [][NextRelay]_vars

SpecClients == Init /\ [][NextClients]_vars

SpecClientsConcurrent == Init /\ [][NextClientsConcurrent]_vars

\* The goroutines keep running: a copy goroutine whose read has ended or
\* failed goes on to its send and exits, and the handler goes on from its
\* receive through its deferred Close calls.  Nothing is assumed about the
\* peers.
FairRelay ==
    /\ \A i \in 1..2 :
          /\ WF_vars(CopyReadEnds(i))
          /\ WF_vars(ReadMessage(i))
          /\ WF_vars(ReadFails(i))
          /\ WF_vars(\E ok \in BOOLEAN : WriteMessage(i, ok))
          /\ WF_vars(Send(i))
    /\ WF_vars(HandlerReceives)
    /\ WF_vars(HandlerClose1)
    /\ WF_vars(HandlerClose2)

SpecRelayLive == Init /\ [][NextRelay]_vars /\ FairRelay

\* The running watcher (never stopped) against every content of the file,
\* with one Match caller
NextLive ==
    \/ MatchRLock(1)
    \/ \E req \in MatchRequests : MatchLoop(1, req)
    \/ MatchRUnlock(1)
    \/ \E f \in 1..Len(Files) : FileWrite(f)
    \/ WatchEvent
    \/ ReloadSteps

\* The goroutines keep running: the watcher goroutine takes its next step
\* and a Match call goes on to its RUnlock.  r.mu.Lock() of UpdateRoutes is
\* granted although Match calls keep coming: a pending Lock of a
\* sync.RWMutex keeps new RLock calls waiting.  Nothing is assumed of the
\* writes to the file.  The condition on UpdateRoutesLoops is weak
\* fairness written out, the step being enabled exactly at "build".
FairLive ==
    /\ WF_vars(WatchEvent)
    /\ WF_vars(ReloadLock)
    /\ WF_vars(ReloadLoad)
    /\ WF_vars(OnChangeLogger)
    /\ SF_vars(UpdateRoutesLock)
    /\ ([]<>(wpc # "build") \/ []<><<UpdateRoutesLoops>>_vars)
    /\ WF_vars(UpdateRoutesStorePtr)
    /\ WF_vars(UpdateRoutesStoreLen)
    /\ WF_vars(UpdateRoutesUnlock)
    /\ WF_vars(ReloadSetConfig)
    /\ WF_vars(OnChangeSetCfg)
    /\ WF_vars(ReloadUnlock)
    /\ WF_vars(\E req \in MatchRequests : MatchLoop(1, req))
    /\ WF_vars(MatchRUnlock(1))

SpecLive == Init /\ [][NextLive]_vars /\ FairLive

\* the contents written to the file while the locks are watched: one that
\* builds and one whose rule does not parse
LockFiles == {2, 3}

\* A request handler, the watcher's reloads, Server.Stop and Watcher.Stop,
\* all at once.  The handler holds the read lock of Router.mu for the one
\* step of its Match.
NextLocks ==
    \/ Accept(ReqA)
    \/ ServeHTTP
    \/ handleHTTP
    \/ Forward("ok", 200)
    \/ \E f \in LockFiles : FileWrite(f)
    \/ WatchEvent
    \/ WatchClosed
    \/ ReloadSteps
    \/ StopBegin
    \/ StopDrained
    \/ StopDeadline
    \/ WatcherStop(TRUE)

\* The goroutines keep running, as in FairLive; a handler goes on to its
\* Match, which r.mu.RLock() grants each time the writer unlocks (strong
\* fairness), and through Forward to its return; Stop returns once Shutdown
\* has nothing to wait for.  Nothing is assumed of the deadline of Stop.
FairLocks ==
    /\ FairLive
    /\ WF_vars(ServeHTTP)
    /\ SF_vars(handleHTTP)
    /\ WF_vars(Forward("ok", 200))
    /\ WF_vars(StopDrained)

SpecLocks == Init /\ [][NextLocks]_vars /\ FairLocks

\* the process at rest and one call with its inputs
InitCall(inputs) ==
    /\ \E f \in StartFiles : InitRouter(f)
    /\ sv = SvIdle
    /\ ct = CtIdle
    /\ stop = StopIdle
    /\ pf \in inputs
    /\ rl = RlIdle
    /\ fc = FcInit

SpecForward == InitCall(ForwardInputs) /\ [][NextForward]_vars

SpecParse == InitCall(ParseInputs) /\ [][NextParse]_vars

(***************************************************************************)
(* Claims about the router and the reload                                  *)
(***************************************************************************)
\* the routing table that is published
Table == heap[routes.ptr].arr

\* the position of the first route of arr whose rule is true on req, 0 if none
FirstMatch(arr, req) ==
    IF \E i \in 1..Len(arr) : RuleMatch(arr[i].rule, req)
    THEN CHOOSE i \in 1..Len(arr) :
            /\ RuleMatch(arr[i].rule, req)
            /\ \A j \in 1..(i - 1) : ~RuleMatch(arr[j].rule, req)
    ELSE 0

\* the nodes of the services, in service order then node order
RECURSIVE FlattenNodes(_)
FlattenNodes(services) ==
    IF services = << >> THEN << >>
    ELSE Head(services).nodes \o FlattenNodes(Tail(services))

\* C1: Match returns the first route of the table, in table order, whose
\* rule is true on the request, and reports no match exactly when no rule of
\* the table is true on it.
C1_FirstMatch ==
    \A p \in Readers :
        rd[p].pc = "return" =>
            /\ ~rd[p].res.fault
            /\ rd[p].res.matched = (FirstMatch(Table, rd[p].req) # 0)
            /\ rd[p].res.idx = FirstMatch(Table, rd[p].req)
            /\ rd[p].res.matched => rd[p].res.node = Table[rd[p].res.idx].node

\* a Match returned its first route although a later route matches as well
C1_Witness ==
    \E p \in Readers :
        /\ rd[p].pc = "return"
        /\ rd[p].res.matched
        /\ \E j \in (rd[p].res.idx + 1)..Len(Table) : RuleMatch(Table[j].rule, rd[p].req)

\* C2: after a successful UpdateRoutes the table is the sequence of the
\* configured nodes in service order then node order, every route carries
\* the name, address and proxy of the node its rule was compiled from, and a
\* matched request is routed to the address of that node.
C2_RoutesCarryTheirNode ==
    /\ ~rmu.writer =>
          /\ routes.len = Len(FlattenNodes(heap[routes.ptr].from))
          /\ Len(Table) = routes.len
          /\ \A i \in 1..Len(Table) :
                /\ Table[i].name = FlattenNodes(heap[routes.ptr].from)[i].name
                /\ Table[i].rule = buildRoute(FlattenNodes(heap[routes.ptr].from)[i], NilPtr).route.rule
                /\ Deref(heap, routes.ptr, Table[i].node) = FlattenNodes(heap[routes.ptr].from)[i]
    /\ \A p \in Readers :
          (rd[p].pc = "return" /\ rd[p].res.matched) =>
              Deref(heap, rd[p].ptr, rd[p].res.node).addr
                  = FlattenNodes(heap[rd[p].ptr].from)[rd[p].res.idx].addr

\* C3: a Match never iterates routes of two table generations: the slice it
\* ranges over is, whole, the table of one UpdateRoutes call.
C3_NoTornTable ==
    \A p \in Readers :
        rd[p].pc \in {"loop", "return"} =>
            /\ heap[rd[p].ptr].live
            /\ rd[p].len = Len(heap[rd[p].ptr].arr)
            /\ ~rd[p].res.fault

\* two Match calls are running while an UpdateRoutes with another table
\* waits for the lock
C3_Witness ==
    /\ wpc = "srv_reload"
    /\ wl.cfg.services # heap[routes.ptr].from
    /\ \E p, q \in Readers : p # q /\ rd[p].pc = "loop" /\ rd[q].pc = "return"

\* the outcomes of a reload that failed
ReloadFailed == wpc = "returned" /\ wl.outcome \in {"load_failed", "apply_failed"}

\* C4: a reload that fails at any stage leaves the routing table and the
\* server's config as they were, every Match uses the published table, and
\* between reloads that table is the one built from the server's config.
C4_FailedReloadKeepsTable ==
    /\ ReloadFailed =>
          /\ routes = wl.pre.routes
          /\ heap[routes.ptr] = wl.pre.table
          /\ srvConfig = wl.pre.srvConfig
    /\ \A p \in Readers :
          rd[p].pc \in {"loop", "return"} =>
              rd[p].ptr = routes.ptr /\ rd[p].len = routes.len
    /\ wpc \in {"watch", "exited", "reload", "load"} =>
          /\ Table = UpdateRoutesBuild(srvConfig.services).arr
          /\ routes.len = Len(Table)

\* a reload failed in the rule build after an earlier reload had replaced
\* the table the process started with
C4_Witness ==
    /\ wpc = "returned"
    /\ wl.outcome = "apply_failed"
    /\ UpdateRoutesBuild(wl.cfg.services).err
    /\ routes.ptr # 1

\* C5: when the on_change callback returns an error, the routing table, the
\* server's config, the process's cfg and the logger settings are as they
\* were before the reload began.
C5_FailedCallbackChangesNothing ==
    (wpc = "returned" /\ wl.outcome = "apply_failed") =>
        /\ routes = wl.pre.routes
        /\ heap[routes.ptr] = wl.pre.table
        /\ srvConfig = wl.pre.srvConfig
        /\ cfg = wl.pre.cfg
        /\ logger = wl.pre.logger

(***************************************************************************)
(* Claims about the dispatch, the routing miss and the CONNECT tunnel      *)
(***************************************************************************)
\* the request being served matches no route of the published table
RoutingMiss == FirstMatch(Table, sv.req) = 0

\* the request carries exactly the headers Upgrade: websocket, Connection: Upgrade
CarriesUpgrade(r) == r.header = HdrWebSocket

\* the request carries no Upgrade header at all
PlainHTTP(r) == r.method # MethodConnect /\ HeaderGet(r.header, HdrUpgrade) = Empty

\* C6: ServeHTTP hands the request to exactly one handler: CONNECT to the
\* tunnel, also when it carries upgrade headers; otherwise a WebSocket
\* upgrade to the bridge; otherwise the request to the HTTP forwarder.
C6_DispatchOrder ==
    /\ sv.pc \in {"idle", "serve"} => sv.calls = << >>
    /\ sv.pc \notin {"idle", "serve"} =>
          /\ Len(sv.calls) = 1
          /\ sv.calls[1] \in {"handleConnect", "handleWebSocket", "handleHTTP"}
          /\ sv.req.method = MethodConnect => sv.calls[1] = "handleConnect"
          /\ (sv.req.method # MethodConnect /\ CarriesUpgrade(sv.req)) =>
                sv.calls[1] = "handleWebSocket"
          /\ PlainHTTP(sv.req) => sv.calls[1] = "handleHTTP"
    /\ sv.pc \in {"handleHTTP", "forward"} => sv.calls = <<"handleHTTP">>
    /\ sv.pc \in {"handleWebSocket", "upgrade", "ws_dial", "bridge"} =>
          sv.calls = <<"handleWebSocket">>
    /\ sv.pc \in {"handleConnect", "tunnel"} => sv.calls = <<"handleConnect">>

\* a CONNECT request with upgrade headers is inside handleConnect
C6_Witness ==
    /\ sv.pc = "handleConnect"
    /\ sv.req.method = MethodConnect
    /\ CarriesUpgrade(sv.req)

\* the tunnel has its target connection through the upstream proxy
EstablishedViaProxy == ct.via = "proxy" /\ ct.pc \in {"hijack", "write200", "relay", "closed"}

\* the CONNECT to the proxy failed on a write or read error or on a status
\* other than 200
ProxyRefused ==
    /\ ct.via = "proxy"
    /\ sv.pc = "done"
    /\ \/ ct.ioerr \in {"write", "read"}
       \/ ct.response # Empty /\ ct.sent # Empty /\ ProxyStatus(ct.sent) # <<"2", "0", "0">>

\* C7: with a proxy URL on the matched node the tunnel is established only
\* if the proxy answered with status 200; on another status or a write or
\* read error the proxy connection is closed, the client is not hijacked,
\* no 200 line is sent to it and it receives 502.
C7_ProxyMustAnswer200 ==
    /\ EstablishedViaProxy =>
          /\ ct.sent # Empty
          /\ ProxyStatus(ct.sent) = <<"2", "0", "0">>
    /\ ProxyRefused =>
          /\ ct.conn = "closed"
          /\ ~sv.hijacked
          /\ ~ct.line200
          /\ ct.toClient = Empty
          /\ sv.w.wroteHeader
          /\ sv.w.status = StatusBadGateway

\* the proxy answered 407 or 204 and the client got its 502
C7_Witness ==
    /\ ProxyRefused
    /\ ct.ioerr = "status"
    /\ Len(ct.response) >= 12
    /\ sv.w.status = StatusBadGateway
    /\ ct.conn = "closed"

\* s is a prefix of t
IsPrefix(s, t) == Len(s) <= Len(t) /\ SubSeq(t, 1, Len(s)) = s

\* C8: in an established tunnel the bytes delivered to the backend are the
\* bytes the client sent and the bytes delivered to the client are the
\* bytes the backend sent, none lost, duplicated or reordered, including
\* backend bytes that arrive in the same read as the proxy's 200: what was
\* delivered is a prefix of what was sent, and what was sent and not yet
\* delivered is still waiting to be read.
C8_TunnelTransparent ==
    ct.line200 =>
        /\ IsPrefix(ct.toTarget, ct.clientSent)
        /\ IsPrefix(ct.toClient, ct.backendSent)
        /\ \E k \in 0..Len(ct.wire) :
              ct.toClient \o SubSeq(ct.wire, k + 1, Len(ct.wire)) = ct.backendSent
        /\ ct.toTarget \o ct.cwire = ct.clientSent

\* the one reply of Section 6.4 for the request being served
IsJSON502 ==
    /\ sv.w.wroteHeader
    /\ sv.w.status = StatusBadGateway
    /\ sv.w.ctype = "application/json"
    /\ Len(sv.w.body) = 1
    /\ sv.w.body[1].kind = "json"
    /\ sv.w.body[1].error = "no matching route found"

\* C9: a plain HTTP request that matches no route gets one response: 502,
\* Content-Type application/json, a JSON body with the error text and the
\* request's host, path and method; no backend request is made.
C9_MissIsJSON502 ==
    (sv.pc = "done" /\ PlainHTTP(sv.req) /\ RoutingMiss) =>
        /\ IsJSON502
        /\ sv.w.body = << [kind |-> "json", error |-> "no matching route found",
                           host |-> sv.req.host, path |-> sv.req.path,
                           method |-> sv.req.method] >>
        /\ sv.dials = << >>
        /\ ~sv.hijacked

\* a GET that matches no route has been answered
C9_Witness ==
    /\ sv.pc = "done"
    /\ PlainHTTP(sv.req)
    /\ RoutingMiss
    /\ sv.w.status = StatusBadGateway

\* C10: a routing miss on any of the three paths is answered with the JSON
\* 502 of Section 6.4 and opens no backend or proxy connection.
C10_EveryMissIsJSON502 ==
    (sv.pc = "done" /\ RoutingMiss) =>
        /\ IsJSON502
        /\ sv.dials = << >>

(***************************************************************************)
(* C11  For a matched HTTP request the 502 JSON error body (error "failed  *)
(* to forward request", host, path) reaches the client if and only if      *)
(* forwarding failed before the upstream status was written; when the body *)
(* copy fails after the status was written the response carries the        *)
(* upstream status and no error JSON.                                      *)
(***************************************************************************)
ForwardedHTTP ==
    /\ sv.pc = "done"
    /\ sv.calls = <<"handleHTTP">>
    /\ sv.node # NilNode

HasForwardErrorJSON ==
    \E i \in 1..Len(sv.w.body) :
        /\ sv.w.body[i].kind = "json"
        /\ sv.w.body[i].error = ForwardError

FailedBeforeStatus == sv.fwd = "do_failed"

FailedAfterStatus == sv.fwd \in {"read_failed", "write_failed"}

\* C11: the error JSON of a matched HTTP request is in the response exactly
\* when forwarding failed before the upstream status was written; after a
\* later failure the response has the upstream status and no error JSON.
C11_ErrorJSONOnlyBeforeStatus ==
    ForwardedHTTP =>
        /\ HasForwardErrorJSON <=> FailedBeforeStatus
        /\ FailedBeforeStatus =>
              /\ sv.w.status = StatusBadGateway
              /\ sv.w.ctype = "application/json"
              /\ sv.w.body = << [kind |-> "json", error |-> ForwardError,
                                 host |-> sv.req.host, path |-> sv.req.path] >>
        /\ FailedAfterStatus => sv.w.status = sv.upstream /\ ~HasForwardErrorJSON


(***************************************************************************)
(* C14  A non-CONNECT request is dispatched to the WebSocket bridge        *)
(* whenever its Upgrade header equals "websocket" and its Connection       *)
(* header equals "Upgrade" under case-insensitive comparison, and to the   *)
(* HTTP forwarder otherwise.                                               *)
(***************************************************************************)
EqualFold(a, b) == ToUpper(a) = ToUpper(b)

UpgradeCaseInsensitive(r) ==
    /\ EqualFold(HeaderGet(r.header, HdrUpgrade), <<"w", "e", "b", "s", "o", "c", "k", "e", "t">>)
    /\ EqualFold(HeaderGet(r.header, HdrConnection), <<"U", "p", "g", "r", "a", "d", "e">>)

\* C14: a non-CONNECT request goes to handleWebSocket exactly when its
\* Upgrade and Connection values equal "websocket" and "Upgrade" in any case.
C14_UpgradeCaseInsensitive ==
    (sv.pc \notin {"idle", "serve"} /\ sv.req.method # MethodConnect) =>
        /\ UpgradeCaseInsensitive(sv.req) => sv.calls = <<"handleWebSocket">>
        /\ ~UpgradeCaseInsensitive(sv.req) => sv.calls = <<"handleHTTP">>

(***************************************************************************)
(* C12  The outbound request built by Forward carries every header of the  *)
(* inbound request, each name with all its values, and its Host is the     *)
(* node address without its trailing ":port", for every form of address.   *)
(***************************************************************************)
CountByte(s, c) == Cardinality({i \in 1..Len(s) : s[i] = c})

\* the address without its port: a bracketed IPv6 literal keeps its
\* brackets, an address with one colon ends before it, an address with
\* several colons is an IPv6 literal and has no port
HostWithoutPort(addr) ==
    IF HasPrefix(addr, <<"[">>) THEN Slice(addr, 0, LastIndexByte(addr, "]") + 1)
    ELSE IF CountByte(addr, ":") = 1 THEN Slice(addr, 0, IndexByte(addr, ":"))
    ELSE addr

\* C12: the outbound request has the inbound header map and the node
\* address without its port as Host.
C12_HeadersAndHost ==
    pf.pc = "forward" =>
        /\ ~pf.out.err
        /\ DOMAIN pf.out.header = DOMAIN pf.r.header
        /\ \A k \in DOMAIN pf.r.header : pf.out.header[k] = pf.r.header[k]
        /\ pf.out.host = HostWithoutPort(pf.node.addr)

(***************************************************************************)
(* C13  The outbound target is scheme://node.addr followed by the request  *)
(* URI as received; the scheme is https (wss for the WebSocket bridge) if  *)
(* and only if the inbound connection was TLS, http (ws) otherwise.        *)
(***************************************************************************)
SchemeFor(call, tls) ==
    CASE call = "forward" /\ tls -> <<"h", "t", "t", "p", "s">>
      [] call = "forward" /\ ~tls -> <<"h", "t", "t", "p">>
      [] call = "websocket" /\ tls -> <<"w", "s", "s">>
      [] call = "websocket" /\ ~tls -> <<"w", "s">>

\* C13: the target is scheme://addr followed by the request URI as received,
\* https or wss exactly for TLS requests.
C13_TargetURL ==
    (pf.pc \in {"forward", "websocket"} /\ ~pf.out.err) =>
        pf.out.url = SchemeFor(pf.pc, pf.r.tls) \o <<":", "/", "/">> \o pf.node.addr \o pf.target

\* a TLS request with a query has been given its https target, and one its
\* wss target
C13_Witness ==
    /\ pf.pc = "forward"
    /\ pf.r.tls
    /\ pf.r.rawQuery # Empty
    /\ ~pf.out.err
    /\ HasPrefix(pf.out.url, <<"h", "t", "t", "p", "s", ":">>)

(***************************************************************************)
(* C15  Watcher.Stop is idempotent: the second and later calls return nil  *)
(* and change nothing.  Once Stop has returned the on_change callback is   *)
(* neither running nor invoked again, also when file events were already   *)
(* queued or a reload races with Stop.                                     *)
(***************************************************************************)
\* the reload is inside the callback (main's onChange and what it calls)
CallbackRunning == wpc \notin {"watch", "reload", "load", "returned", "exited"}

LaterStopsReturnNil == \A i \in 2..Len(stopRets) : stopRets[i] = "nil"

\* a step made while the watcher is stopped
StepAfterStop ==
    stopped =>
        /\ stopped'
        /\ ~(~CallbackRunning /\ CallbackRunning')
        /\ stopRets' # stopRets =>
              UNCHANGED <<heap, routes, rmu, srvConfig, cfg, logger, file, events, wpc, wl, stopped, rd>>

\* C15: later Stop calls return nil and change nothing; while stopped no
\* reload is past its Lock and no step enters the callback.
C15_StopIdempotentNoCallback ==
    /\ [](LaterStopsReturnNil /\ (stopped => wpc \in {"watch", "reload", "exited"}))
    /\ [][StepAfterStop]_vars

\* Stop has been called twice and the watcher, having received an event that
\* was queued before, is entering reload
C15_Witness ==
    /\ stopped
    /\ Len(stopRets) = 2
    /\ wpc = "reload"

(***************************************************************************)
(* C16  If the configuration file stops changing while the watcher runs    *)
(* and its final content is a valid configuration, then eventually the     *)
(* active routing table equals the table built from that content,          *)
(* whatever valid and invalid contents preceded it.                        *)
(***************************************************************************)
\* the contents that load and whose rules all build, with their tables
BuiltTables ==
    [f \in StartFiles |-> UpdateRoutesBuild(LoadConfig(Files[f]).cfg.services).arr]

Converged(f) ==
    /\ Table = BuiltTables[f]
    /\ routes.len = Len(BuiltTables[f])

LastApplyFailed == wl.last = "apply_failed"

C17_StopTerminatesRelays ==
    (stop.pc = "returned" /\ stop.relay) => ~RelayCopying

(***************************************************************************)
(* C18  Server.Stop waits for the request handlers in flight until the     *)
(* deadline of its context at most, and handlers still running then are    *)
(* terminated by closing their connections: no request handler is running  *)
(* after Stop has returned.                                                *)
(***************************************************************************)
\* C18: after Stop has returned, with nil or with the deadline error, no
\* request handler is running.
C18_NoHandlerAfterStop ==
    stop.pc = "returned" => ~HandlerRunning

(***************************************************************************)
(* C19  ParseRule builds the tree of the grammar's derivation: "!" binds   *)
(* tightest, then "&&", then "||", the binary operators associate to the   *)
(* left and parentheses override.  "A || B && C" is A || (B && C),         *)
(* "!A && B" is (!A) && B and "(A || B) && C" is as written, on every      *)
(* truth assignment of the matchers A, B, C.                               *)
(***************************************************************************)
LeafA == HostMatcher(<<"a">>)
LeafB == PathMatcher(<<"/", "b">>)
LeafC == MethodMatcher(<< MethodGet >>)

\* the derivation tree of each rule string of PrecedenceRules and its value
\* as a function of the results a, b, c of the three matchers
Derivation(text) ==
    CASE text = RuleA \o <<" ", "|", "|", " ">> \o RuleB \o <<" ", "&", "&", " ">> \o RuleC ->
           [tree |-> OrRule(LeafA, AndRule(LeafB, LeafC)),
            val |-> [a, b, c \in BOOLEAN |-> a \/ (b /\ c)]]
      [] text = <<"!">> \o RuleA \o <<" ", "&", "&", " ">> \o RuleB ->
           [tree |-> AndRule(NotRule(LeafA), LeafB),
            val |-> [a, b, c \in BOOLEAN |-> (~a) /\ b]]
      [] text = <<"(">> \o RuleA \o <<" ", "|", "|", " ">> \o RuleB \o <<")", " ", "&", "&", " ">> \o RuleC ->
           [tree |-> AndRule(OrRule(LeafA, LeafB), LeafC),
            val |-> [a, b, c \in BOOLEAN |-> (a \/ b) /\ c]]
      [] text = RuleA \o <<" ", "&", "&", " ">> \o RuleB \o <<" ", "|", "|", " ">> \o RuleC ->
           [tree |-> OrRule(AndRule(LeafA, LeafB), LeafC),
            val |-> [a, b, c \in BOOLEAN |-> (a /\ b) \/ c]]
      [] text = RuleA \o <<" ", "|", "|", " ">> \o RuleB \o <<" ", "|", "|", " ">> \o RuleC ->
           [tree |-> OrRule(OrRule(LeafA, LeafB), LeafC),
            val |-> [a, b, c \in BOOLEAN |-> (a \/ b) \/ c]]
      [] text = RuleA \o <<" ", "&", "&", " ">> \o RuleB \o <<" ", "&", "&", " ">> \o RuleC ->
           [tree |-> AndRule(AndRule(LeafA, LeafB), LeafC),
            val |-> [a, b, c \in BOOLEAN |-> (a /\ b) /\ c]]
      [] text = <<"!">> \o RuleA \o <<" ", "|", "|", " ">> \o RuleB ->
           [tree |-> OrRule(NotRule(LeafA), LeafB),
            val |-> [a, b, c \in BOOLEAN |-> (~a) \/ b]]
      [] text = <<"!", "(">> \o RuleA \o <<" ", "|", "|", " ">> \o RuleB \o <<")">> ->
           [tree |-> NotRule(OrRule(LeafA, LeafB)),
            val |-> [a, b, c \in BOOLEAN |-> ~(a \/ b)]]
      [] text = <<"!", "!">> \o RuleA ->
           [tree |-> NotRule(NotRule(LeafA)),
            val |-> [a, b, c \in BOOLEAN |-> a]]
      [] text = RuleA \o <<" ", "&", "&", " ">> \o <<"(">> \o RuleB \o <<" ", "|", "|", " ">> \o RuleC \o <<")">> ->
           [tree |-> AndRule(LeafA, OrRule(LeafB, LeafC)),
            val |-> [a, b, c \in BOOLEAN |-> a /\ (b \/ c)]]
      [] text = RuleA \o <<"&", "&", "!">> \o RuleB \o <<"|", "|">> \o RuleC ->
           [tree |-> OrRule(AndRule(LeafA, NotRule(LeafB)), LeafC),
            val |-> [a, b, c \in BOOLEAN |-> (a /\ ~b) \/ c]]

\* the results of the three matchers on request r
ResultA(r) == r.host = <<"a">>
ResultB(r) == r.path = <<"/", "b">>
ResultC(r) == r.method = MethodGet

\* C19: each rule string parses to its derivation tree and evaluates to its
\* boolean formula on every request.
C19_Precedence ==
    (pf.pc = "parsed" /\ pf.text \in PrecedenceRules) =>
        /\ ~pf.res.err
        /\ pf.res.rule = Derivation(pf.text).tree
        /\ pf.match = Derivation(pf.text).val[ResultA(pf.r), ResultB(pf.r), ResultC(pf.r)]

\* "A || B && C" has been parsed and evaluated where A holds and B and C do
\* not: true as A || (B && C), false had it been (A || B) && C
C19_Witness ==
    /\ pf.pc = "parsed"
    /\ pf.text = RuleA \o <<" ", "|", "|", " ">> \o RuleB \o <<" ", "&", "&", " ">> \o RuleC
    /\ ResultA(pf.r) /\ ~ResultB(pf.r) /\ ~ResultC(pf.r)
    /\ pf.match

(***************************************************************************)
(* C20  ParseRule returns an error and no rule for an unknown matcher      *)
(* name, a matcher name not followed by "{", unmatched braces, a "("       *)
(* without its ")", a Header, HeaderRegex or Query payload without "=",    *)
(* and an invalid regex; a node with such a rule makes the table build     *)
(* fail.                                                                   *)
(***************************************************************************)
\* C20: each defective rule string makes ParseRule return an error and no
\* rule and makes the table build fail; the well-formed ones build.
C20_ParseFailures ==
    pf.pc \in {"parsed", "built"} =>
        /\ (pf.pc = "parsed" /\ pf.text \in {x.text : x \in FailureRules}) =>
              pf.res.err /\ pf.res.rule = NilRule
        /\ (pf.pc = "built" /\ pf.text \in {x.text : x \in FailureRules}) => pf.err
        /\ (pf.pc = "built" /\ pf.text \in PrecedenceRules) => ~pf.err

\* the table build has failed on a node whose rule has an unclosed brace
C20_Witness ==
    /\ pf.pc = "built"
    /\ \E x \in FailureRules : x.mode = "unmatched braces" /\ x.text = pf.text
    /\ pf.err

(***************************************************************************)
(* C21  Blanks (space, tab, carriage return, newline) between two tokens   *)
(* of a rule change neither whether it parses nor what it evaluates to.    *)
(***************************************************************************)
\* C21: each rule string of WhitespaceRules parses, and evaluates on every
\* request to what its base rule string evaluates to.
C21_WhitespaceIgnored ==
    pf.pc = "parsed" =>
        \A x \in WhitespaceRules :
            x.text = pf.text =>
                /\ ~ParseRule(x.base).err
                /\ ~pf.res.err
                /\ pf.match = RuleMatch(ParseRule(x.base).rule, pf.r)

(***************************************************************************)
(* C22  Every node of a configuration that LoadConfig accepts has exactly  *)
(* one of filter and matcher; a node with both or neither fails the load   *)
(* and nothing is published.                                               *)
(***************************************************************************)
OneOfFilterMatcher(node) == node.filter.present # node.matcher.present

AllOneOf(services) ==
    \A i \in 1..Len(services) :
        \A j \in 1..Len(services[i].nodes) : OneOfFilterMatcher(services[i].nodes[j])

\* the file content f decodes to a configuration with a node that has both
\* or neither
BadShapeFile(f) == Files[f].kind = "yaml" /\ ~AllOneOf(Files[f].cfg.services)

\* the nodes behind the published routes, the running configurations and the
\* configuration a reload has loaded have exactly one of filter and matcher
NodesOneOf ==
    /\ AllOneOf(srvConfig.services)
    /\ AllOneOf(cfg.services)
    /\ (wl.cfg # NilConfig => AllOneOf(wl.cfg.services))
    /\ \A i \in 1..Len(Table) : OneOfFilterMatcher(Deref(heap, routes.ptr, Table[i].node))
    /\ AllOneOf(heap[routes.ptr].from)

\* the LoadConfig of a reload that reads a file with such a node fails, and
\* the reload ends without a change of the table or of the configurations
BadShapeLoadFails ==
    (wpc = "load" /\ wpc' # "load" /\ BadShapeFile(file)) =>
        /\ wpc' = "returned" /\ wl'.outcome = "load_failed"
        /\ UNCHANGED <<heap, routes, srvConfig, cfg>>

\* C22: every node of an accepted configuration, and every node behind a
\* published route, has exactly one of filter and matcher; the load of a file
\* with a node that has both or neither fails and publishes nothing.
C22_ExactlyOneOfFilterMatcher ==
    /\ [](NodesOneOf /\ \A f \in 1..Len(Files) : BadShapeFile(f) => LoadConfig(Files[f]).err)
    /\ [][BadShapeLoadFails]_vars

\* a reload has read the file whose second node has neither filter nor
\* matcher (no write since the event that started it) and its load failed
C22_Witness ==
    /\ wpc = "returned" /\ wl.outcome = "load_failed"
    /\ events = 0
    /\ BadShapeFile(file)
    /\ ~Files[file].cfg.services[1].nodes[Len(Files[file].cfg.services[1].nodes)].filter.present
    /\ ~Files[file].cfg.services[1].nodes[Len(Files[file].cfg.services[1].nodes)].matcher.present

(***************************************************************************)
(* C23  An UpdateRoutes that fails at the k-th node leaves the table it    *)
(* found: no Match sees a prefix of the new table.                         *)
(***************************************************************************)
\* an UpdateRoutes whose build fails has been called and is waiting for the
\* lock, is building, or has returned its error
FailingUpdate ==
    /\ \/ wpc \in {"srv_reload", "build"}
       \/ wpc = "returned" /\ wl.outcome = "apply_failed"
    /\ wl.cfg # NilConfig
    /\ FailingNode(wl.cfg.services) > 0

\* C23: before, during and after an UpdateRoutes that fails at its k-th
\* node, the table is the one the router held before the call, and every
\* Match reads that table and returns its first matching route.
C23_FailedUpdateKeepsTable ==
    FailingUpdate =>
        /\ routes = wl.pre.routes
        /\ heap[routes.ptr] = wl.pre.table
        /\ \A p \in Readers :
              rd[p].pc \in {"loop", "return"} =>
                  /\ rd[p].ptr = wl.pre.routes.ptr
                  /\ rd[p].len = Len(wl.pre.table.arr)
                  /\ heap[rd[p].ptr] = wl.pre.table
        /\ \A p \in Readers :
              rd[p].pc = "return" =>
                  rd[p].res.idx = FirstMatch(wl.pre.table.arr, rd[p].req)

\* an UpdateRoutes failed at its second node, after building the route of
\* its first, and a Match has returned a node
C23_Witness ==
    /\ wpc = "returned" /\ wl.outcome = "apply_failed"
    /\ FailingNode(wl.cfg.services) = 2
    /\ \E p \in Readers : rd[p].pc = "return" /\ rd[p].res.matched

(***************************************************************************)
(* C24  A request consults the routing table once, at handler entry, and   *)
(* every later step uses the node that lookup returned, unchanged, also    *)
(* when the table is replaced while the request is in flight.              *)
(***************************************************************************)
\* a handler is past its Match, which returned a node
HoldsNode == sv.pc \in {"forward", "upgrade", "ws_dial", "bridge", "tunnel"} /\ sv.node # NilNode

\* C24: a request past its dispatch has called Match at most once, exactly
\* once when it is past the handler's entry; the node it holds has the
\* content Match returned, and every dial (address, proxy choice), the
\* outbound request (URL, Host) and the backend URL are those of that node.
C24_OneLookupStableNode ==
    /\ sv.lookups <= 1
    /\ sv.pc \in {"forward", "upgrade", "ws_dial", "bridge", "tunnel", "done"} => sv.lookups = 1
    /\ sv.pc \in {"idle", "serve", "handleHTTP", "handleWebSocket", "handleConnect"} =>
          sv.lookups = 0
    /\ HoldsNode =>
          /\ ServedNode = sv.found
          /\ ForwardRequest(sv.req, ServedNode) = ForwardRequest(sv.req, sv.found)
          /\ backendURL(sv.req, ServedNode) = backendURL(sv.req, sv.found)
    /\ sv.found # NilConfig =>
          \A i \in 1..Len(sv.dials) : sv.dials[i] = DialFor(sv.found)
    /\ sv.found = NilConfig => sv.dials = << >>

\* a request has dialled for the node it got from Match after the table was
\* replaced by one in which the route for this request has another node
C24_Witness ==
    /\ HoldsNode
    /\ sv.dials # << >>
    /\ sv.node.gen # routes.ptr
    /\ RouterMatch(sv.req).matched
    /\ Deref(heap, routes.ptr, RouterMatch(sv.req).node) # sv.found

(***************************************************************************)
(* C25  A Match call never waits for an UpdateRoutes in progress.          *)
(***************************************************************************)
\* C25: whenever a Match is about to be called, its r.mu.RLock() can return
\* at once, whatever step UpdateRoutes is at.
C25_MatchNeverWaits ==
    \A p \in Readers : rd[p].pc = "idle" => RLock(rmu)

(***************************************************************************)
(* C26  No two executions of the reload step overlap; an event that        *)
(* arrives during a reload is handled after that reload has finished.      *)
(***************************************************************************)
\* a reload is between its LoadConfig and its return
ReloadRunning == wl.outcome # "none"

\* an event is taken from the Events channel
EventTaken == events' < events

\* a reload passes its test of w.stopped and goes on to LoadConfig
ReloadBegins == wpc = "reload" /\ wpc' = "load"

\* C26: an event is taken from the channel only while no reload is running,
\* and a reload begins only when the one before it has returned; while a
\* reload runs the watch loop is inside it.
C26_ReloadsDoNotOverlap ==
    /\ [][(EventTaken \/ ReloadBegins) => ~ReloadRunning]_vars
    /\ [](ReloadRunning =>
            wpc \in {"load", "on_change", "srv_reload", "build", "store_ptr", "store_len",
                     "unlock", "set_config", "set_cfg", "returned"})
    /\ [](wpc \in {"watch", "reload", "exited"} => ~ReloadRunning)

\* a file event has arrived while a reload is building the routing table
C26_Witness ==
    /\ wpc = "build"
    /\ ReloadRunning
    /\ events > 0

(***************************************************************************)
(* C27  handleConnect writes "HTTP/1.1 200 Connection Established" only    *)
(* after the target connection is established and the client connection   *)
(* is hijacked, relays only after the line was written, never writes it    *)
(* after a failed dial or hijack, and answers 500 when hijacking is        *)
(* unsupported.                                                            *)
(***************************************************************************)
\* the target connection was obtained: dialled directly, or dialled to the
\* proxy, which answered the CONNECT with status 200
TargetEstablished ==
    /\ ct.conn \in {"open", "closed"}
    /\ ct.ioerr \notin {"dial", "write", "read", "status"}
    /\ sv.dials # << >>
    /\ ct.via = "proxy" =>
          /\ ProxyResponseOK(ct.response)
          /\ ProxyStatus(ct.sent) = <<"2", "0", "0">>

\* C27: the 200 line is about to be written or was written only with the
\* target established and the client hijacked; bytes are relayed only after
\* it was written; it is not written when the dial, the proxy's CONNECT, the
\* hijack or its own write failed; unsupported hijacking is answered with
\* 500 on the ResponseWriter.
C27_EstablishedLineOrder ==
    /\ (ct.pc = "write200" \/ ct.line200) => TargetEstablished /\ sv.hijacked
    /\ (ct.pc \in {"relay", "closed"} \/ ct.toClient # Empty \/ ct.toTarget # Empty) =>
          ct.line200
    /\ ct.pc = "failed" => ~ct.line200 /\ ct.toClient = Empty /\ ct.toTarget = Empty
    /\ ct.ioerr \in {"hijack_unsupported", "hijack_failed"} =>
          /\ ~sv.hijacked
          /\ sv.w.wroteHeader /\ sv.w.status = StatusInternalServerError
    /\ ct.ioerr = "hijack_unsupported" =>
          sv.w.body = << [kind |-> "text", text |-> "Hijacking not supported"] >>

\* the line was written on a tunnel through the proxy and a byte went each
\* way afterwards
C27_Witness ==
    /\ ct.line200 /\ ct.via = "proxy"
    /\ ct.toClient # Empty /\ ct.toTarget # Empty

\* hijacking was unsupported after the target had been dialled directly
C27_WitnessUnsupported ==
    /\ ct.ioerr = "hijack_unsupported" /\ ct.via = "direct"
    /\ sv.w.status = StatusInternalServerError

(***************************************************************************)
(* Claims about the relay goroutines                                       *)
(***************************************************************************)
\* a copy direction has completed
DirectionDone == \E i \in 1..2 : rl.g[i] \in {"send", "exited"}

\* the handler has returned, both connections are closed and both copy
\* goroutines have exited
RelayOver ==
    /\ rl.h = "returned"
    /\ \A s \in Sides : rl.conn[s] = "closed"
    /\ \A i \in 1..2 : rl.g[i] = "exited"

\* C28: in a CONNECT tunnel the handler leaves its receive only after a copy
\* direction has completed, errCh never holds more than its capacity, and
\* once a direction has completed the handler returns, both connections are
\* closed and both goroutines have exited.
C28_TunnelEnds ==
    /\ [](rl.kind = "connect" =>
            /\ rl.h \in {"close1", "close2", "returned"} => DirectionDone
            /\ rl.errCh <= ErrChCap)
    /\ (rl.kind = "connect" /\ DirectionDone) ~> (rl.kind = "connect" /\ RelayOver)

\* a tunnel is over after the client's side ended first; the result of the
\* other goroutine stays in errCh
C28_Witness ==
    /\ rl.kind = "connect"
    /\ RelayOver
    /\ rl.errCh = 1

\* C29: in a WebSocket bridge the handler leaves its receive only after a
\* copy direction got an error, and once a direction got an error the
\* handler returns, the client and the backend connection are closed, both
\* goroutines have exited and nothing more is forwarded.
C29_BridgeEnds ==
    /\ [](rl.kind = "websocket" =>
            /\ rl.h \in {"close1", "close2", "returned"} => DirectionDone
            /\ \A i \in 1..2 : rl.g[i] = "exited" => rl.held[i] = NoFrame)
    /\ (rl.kind = "websocket" /\ DirectionDone) ~> (rl.kind = "websocket" /\ RelayOver)

\* a bridge is over that had forwarded a message before the backend's side
\* failed; the result of the other goroutine stays in errCh
C29_Witness ==
    /\ rl.kind = "websocket"
    /\ RelayOver
    /\ rl.errCh = 1
    /\ rl.fwd[1] # << >>

\* C30: what a direction of the bridge has written to its destination is
\* what it has read from its source: the same frames, with type and payload,
\* in the same order.
C30_FramesPreserved ==
    rl.kind = "websocket" =>
        \A i \in 1..2 :
            /\ IsPrefix(rl.fwd[i], rl.sent[Src(i)])
            /\ (rl.g[i] = "copy" /\ rl.held[i] = NoFrame) =>
                  rl.fwd[i] = SubSeq(rl.sent[Src(i)], 1, rl.nread[Src(i)])

(***************************************************************************)
(* C31  Forward calls one after the other: the registry holds one handle   *)
(* per key, created on the first use of the key, returned by every later   *)
(* lookup, never removed or replaced, also across reloads and Close.       *)
(***************************************************************************)
\* caller p's getClient has returned a client
Returned(p) == fc.g[p].pc = "done"

\* a client is created by a caller whose key has no entry
CreatedOnFirstUse ==
    fc'.made # fc.made =>
        \E p \in Callers :
            /\ fc.g[p].pc = "create"
            /\ fc.clients[fc.g[p].key] = 0
            /\ fc.first[fc.g[p].key] = 0

\* an entry stays what it is
EntriesKept ==
    \A k \in ClientKeys : fc.clients[k] # 0 => fc'.clients[k] = fc.clients[k]

\* C31: when getClient calls do not overlap, a client is created only for a
\* key without entry, an entry once stored is never removed or replaced, and
\* every returned client is the entry of its key, which is the first client
\* stored under that key.
C31_OneClientPerKey ==
    /\ [][CreatedOnFirstUse /\ EntriesKept]_vars
    /\ [](\A p \in Callers :
             Returned(p) =>
                 /\ fc.g[p].h # 0
                 /\ fc.g[p].h = fc.clients[fc.g[p].key]
                 /\ fc.g[p].h = fc.first[fc.g[p].key])
    /\ [](\A k, l \in ClientKeys :
             fc.clients[k] # 0 /\ fc.clients[k] = fc.clients[l] => k = l)

\* a lookup returns the client stored by an earlier call, after a reload has
\* replaced the table and after Close
C31_Witness ==
    /\ \E p \in Callers :
          /\ Returned(p)
          /\ fc.g[p].h = 1
          /\ fc.made = 2
    /\ fc.closes = 1
    /\ routes.ptr # 1
    /\ wl.last = "ok"

(***************************************************************************)
(* C32  Concurrent requests: no two goroutines are inside the clients map  *)
(* at once with one of them writing, and the first client stored under a   *)
(* key is not overwritten by a second.                                     *)
(***************************************************************************)
\* C32: in every interleaving of getClient calls and Close, no goroutine
\* writes the clients map while another one reads or writes it, and an entry
\* once stored is never replaced.
C32_RegistrySafe ==
    /\ [](~MapRace)
    /\ [][EntriesKept]_vars

\* no goroutine writes the clients map while another one is inside it
C32_NoMapRace == ~MapRace

\* the entry of a key is the first client stored under it
C32_FirstStoredWins ==
    \A k \in ClientKeys : fc.clients[k] = fc.first[k]

(***************************************************************************)
(* HostMatcher.Match on its own: every pattern on every request            *)
(***************************************************************************)
HostPatterns ==
    { <<"*", ".", "e", "x", "a", "m", "p", "l", "e", ".", "c", "o", "m">>,
      <<"e", "x", "a", "m", "p", "l", "e", ".", "c", "o", "m">>,
      <<"a", ".", "e", "x", "a", "m", "p", "l", "e", ".", "c", "o", "m">>,
      <<"*", ".">>,
      <<"[", ":", ":", "1", "]">>,
      <<"*", ".", "c", "o", "m">> }

HostValues ==
    { <<"a", ".", "e", "x", "a", "m", "p", "l", "e", ".", "c", "o", "m">>,
      <<"e", "x", "a", "m", "p", "l", "e", ".", "c", "o", "m">>,
      <<"a", "e", "x", "a", "m", "p", "l", "e", ".", "c", "o", "m">>,
      <<"a", ".", "e", "x", "a", "m", "p", "l", "e", ".", "c", "o", "m", ":", "8", "0", "8", "0">>,
      <<"e", "x", "a", "m", "p", "l", "e", ".", "c", "o", "m", ":", "8", "0">>,
      <<"b", ".", "a", ".", "e", "x", "a", "m", "p", "l", "e", ".", "c", "o", "m">>,
      <<"*", ".", "e", "x", "a", "m", "p", "l", "e", ".", "c", "o", "m">>,
      <<".", "e", "x", "a", "m", "p", "l", "e", ".", "c", "o", "m">>,
      <<"e", "x", "a", "m", "p", "l", "e", ".", "c", "o", "m", ".">>,
      <<"E", "x", "a", "m", "p", "l", "e", ".", "c", "o", "m">>,
      <<"[", ":", ":", "1", "]", ":", "8", "0", "8", "0">>,
      <<"[", ":", ":", "1", "]">>,
      <<"c", "o", "m">>,
      Empty }

\* requests with a Host, and requests without one whose URL has an authority
HostRequests ==
    { Request(MethodGet, h, <<"/">>, NoHeader) : h \in HostValues }
    \cup { [Request(MethodGet, Empty, <<"/">>, NoHeader) EXCEPT !.urlHost = h] : h \in HostValues }

HostInputs == { [pc |-> "input", pattern |-> x, r |-> r] : x \in HostPatterns, r \in HostRequests }

\* the rule Host{pattern} is parsed and evaluated on the request
HostApply ==
    /\ pf.pc = "input"
    /\ pf' = [pc |-> "matched", pattern |-> pf.pattern, r |-> pf.r,
              rule |-> ParseRule(<<"H", "o", "s", "t", "{">> \o pf.pattern \o <<"}">>),
              match |-> HostMatch(HostMatcher(pf.pattern), pf.r)]
    /\ UNCHANGED <<routerVars, sv, ct, stop, rl, fc>>

NextHost == HostApply

SpecHost == InitCall(HostInputs) /\ [][NextHost]_vars

(***************************************************************************)
(* C33  HostMatcher: the effective host is the Host (else the URL's        *)
(* authority) without its ":port"; "*.d" matches d and the hosts ending in *)
(* ".d", any other pattern the byte-equal host.                            *)
(***************************************************************************)
\* an authority without its ":port": a bracketed IPv6 literal keeps its
\* brackets and the colons between them
StripPort(h) ==
    IF Len(h) > 0 /\ h[1] = "[" /\ IndexByte(h, "]") # -1
    THEN Slice(h, 0, IndexByte(h, "]") + 1)
    ELSE IF LastIndexByte(h, ":") # -1 THEN Slice(h, 0, LastIndexByte(h, ":")) ELSE h

\* the effective host of a request
EffectiveHost(req) == StripPort(IF req.host = Empty THEN req.urlHost ELSE req.host)

\* the hosts a pattern stands for
PatternHolds(pattern, host) ==
    IF HasPrefix(pattern, <<"*", ".">>)
    THEN \/ host = Slice(pattern, 2, Len(pattern))
         \/ HasSuffix(host, <<".">> \o Slice(pattern, 2, Len(pattern)))
    ELSE host = pattern

\* C33: the result of HostMatcher.Match is that of the pattern on the
\* request's effective host, the Host or else the URL's authority with its
\* ":port" stripped.
C33_HostPattern ==
    pf.pc = "matched" =>
        /\ ~pf.rule.err /\ pf.rule.rule = HostMatcher(pf.pattern)
        /\ pf.match = PatternHolds(pf.pattern, EffectiveHost(pf.r))

\* the same for the hosts that are not IPv6 literals
C33_HostPatternNoLiteral ==
    pf.pc = "matched" /\ IndexByte(pf.r.host \o pf.r.urlHost, "[") = -1 =>
        /\ ~pf.rule.err /\ pf.rule.rule = HostMatcher(pf.pattern)
        /\ pf.match = PatternHolds(pf.pattern, EffectiveHost(pf.r))

(***************************************************************************)
(* Evaluation of parsed rules: every rule text on every request            *)
(***************************************************************************)
ExampleRule == <<"!", "P", "a", "t", "h", "{", "/", "h", "e", "a", "l", "t", "h", "}", " ", "&", "&", " ", "M", "e", "t", "h", "o", "d", "{", "G", "E", "T", ",", "P", "O", "S", "T", "}">>

EvalTexts ==
    { ExampleRule,
      <<"M", "e", "t", "h", "o", "d", "{", "g", "e", "t", "}">>,
      <<"M", "e", "t", "h", "o", "d", "{", "G", "E", "T", ",", " ", "P", "o", "s", "t", "}">>,
      <<"!", "M", "e", "t", "h", "o", "d", "{", "G", "E", "T", "}">>,
      <<"P", "a", "t", "h", "{", "/", "x", "}", " ", "|", "|", " ", "M", "e", "t", "h", "o", "d", "{", "D", "E", "L", "E", "T", "E", "}">>,
      <<"!", "(", "P", "a", "t", "h", "{", "/", "h", "e", "a", "l", "t", "h", "}", " ", "|", "|", " ", "M", "e", "t", "h", "o", "d", "{", "p", "o", "s", "t", "}", ")">>,
      <<"H", "o", "s", "t", "{", "a", "}", " ", "&", "&", " ", "!", "P", "a", "t", "h", "{", "/", "h", "e", "a", "l", "t", "h", "}", " ", "|", "|", " ", "M", "e", "t", "h", "o", "d", "{", "D", "e", "l", "e", "t", "e", "}">>,
      <<"!", "!", "P", "a", "t", "h", "{", "/", "x", "}", " ", "&", "&", " ", "!", "M", "e", "t", "h", "o", "d", "{", "G", "E", "T", ",", "D", "E", "L", "E", "T", "E", "}">>,
      <<"M", "e", "t", "h", "o", "d", "{", "}">>,
      <<"B", "o", "g", "u", "s", "{", "x", "}">> }

EvalMethods == { <<"G", "E", "T">>, <<"P", "O", "S", "T">>, <<"D", "E", "L", "E", "T", "E">>, <<"p", "o", "s", "t">>, <<"G", "e", "t">> }

EvalRequests ==
    { Request(m, <<"a">>, q, NoHeader) :
        m \in EvalMethods, q \in {<<"/", "h", "e", "a", "l", "t", "h">>, <<"/", "x">>} }

EvalInputs == { [pc |-> "input", text |-> x, r |-> r] : x \in EvalTexts, r \in EvalRequests }

\* ParseRule is called and the rule it returned is evaluated on the request
EvalApply ==
    /\ pf.pc = "input"
    /\ pf' = [pc |-> "evaluated", text |-> pf.text, r |-> pf.r, res |-> ParseRule(pf.text),
              match |-> IF ParseRule(pf.text).err THEN FALSE
                        ELSE RuleMatch(ParseRule(pf.text).rule, pf.r)]
    /\ UNCHANGED <<routerVars, sv, ct, stop, rl, fc>>

NextEval == EvalApply

SpecEval == InitCall(EvalInputs) /\ [][NextEval]_vars

(***************************************************************************)
(* C34  The value of a rule tree on a request is the boolean combination   *)
(* of its leaves' results; Method is membership without regard to case.    *)
(***************************************************************************)
\* the requests on which a rule is true: intersection for And, union for Or,
\* complement for Not, the methods listed whatever their case for Method
RECURSIVE Sat(_)
Sat(rule) ==
    CASE rule.kind = "And" -> Sat(rule.left) \cap Sat(rule.right)
      [] rule.kind = "Or" -> Sat(rule.left) \cup Sat(rule.right)
      [] rule.kind = "Not" -> EvalRequests \ Sat(rule.inner)
      [] rule.kind = "Method" ->
            { r \in EvalRequests :
                ToUpper(r.method) \in { ToUpper(rule.methods[i]) : i \in 1..Len(rule.methods) } }
      [] rule.kind = "Path" -> { r \in EvalRequests : r.path = rule.path }
      [] rule.kind = "Host" -> { r \in EvalRequests : HostMatch(rule, r) }
      [] OTHER -> { r \in EvalRequests : RuleMatch(rule, r) }

\* C34: the result of evaluating a parsed rule on a request is the boolean
\* combination of the results of its leaves, a Method leaf being true when
\* the request method is one of the listed methods whatever the case of
\* either; !Path{/health} && Method{GET,POST} is true exactly on the
\* requests with method GET or POST and a path other than /health.
C34_TreeEvaluation ==
    pf.pc = "evaluated" /\ ~pf.res.err =>
        /\ pf.match = (pf.r \in Sat(pf.res.rule))
        /\ pf.text = ExampleRule =>
              /\ pf.res.rule = AndRule(NotRule(PathMatcher(<<"/", "h", "e", "a", "l", "t", "h">>)),
                                       MethodMatcher(<<MethodGet, <<"P", "O", "S", "T">> >>))
              /\ pf.match = /\ pf.r.path # <<"/", "h", "e", "a", "l", "t", "h">>
                            /\ ToUpper(pf.r.method) \in {MethodGet, <<"P", "O", "S", "T">>}

\* the example is true on a request whose method is written "post"
C34_Witness ==
    /\ pf.pc = "evaluated"
    /\ pf.text = ExampleRule
    /\ pf.r.method = <<"p", "o", "s", "t">>
    /\ pf.r.path = <<"/", "x">>
    /\ pf.match

(***************************************************************************)
(* Rule strings with text after a complete expression                      *)
(***************************************************************************)
\* a complete expression followed by further text
TrailingRules ==
    { <<"H", "o", "s", "t", "{", "a", "}", ")">>,
      <<"H", "o", "s", "t", "{", "a", "}", " ", "x">>,
      <<"H", "o", "s", "t", "{", "a", "}", " ", "&">>,
      <<"H", "o", "s", "t", "{", "a", "}", " ", "|">>,
      <<"H", "o", "s", "t", "{", "a", "}", " ", "P", "a", "t", "h", "{", "/", "b", "}">>,
      <<"(", "H", "o", "s", "t", "{", "a", "}", ")", ")">>,
      <<"H", "o", "s", "t", "{", "a", "}", " ", "&", " ", "P", "a", "t", "h", "{", "/", "b", "}">>,
      <<"H", "o", "s", "t", "{", "a", "}", " ", "|", "|", " ", "P", "a", "t", "h", "{", "/", "b", "}", " ", "!">>,
      <<"H", "o", "s", "t", "{", "a", "}", "}">> }

\* complete expressions and nothing else
WholeRules ==
    { <<"H", "o", "s", "t", "{", "a", "}">>,
      <<"H", "o", "s", "t", "{", "a", "}", " ", "&", "&", " ", "P", "a", "t", "h", "{", "/", "b", "}">>,
      <<" ", "(", " ", "H", "o", "s", "t", "{", "a", "}", " ", "|", "|", " ", "P", "a", "t", "h", "{", "/", "b", "}", " ", ")", " ">> }

TrailingInputs ==
    { [pc |-> "input", text |-> x, r |-> r] :
        x \in TrailingRules \cup WholeRules, r \in ParseRequests }

NextTrailing ==
    \/ ParseApply
    \/ BuildApply

SpecTrailing == InitCall(TrailingInputs) /\ [][NextTrailing]_vars

(***************************************************************************)
(* C35  ParseRule returns a rule only when it has consumed the whole       *)
(* trimmed rule string.                                                    *)
(***************************************************************************)
\* C35: when ParseRule returns a rule the parser has consumed the whole
\* trimmed input; a complete expression followed by further text is an
\* error, for ParseRule and for UpdateRoutes.
C35_WholeInputConsumed ==
    /\ pf.pc = "parsed" /\ ~pf.res.err => pf.res.pos = Len(TrimSpace(pf.text))
    /\ pf.pc = "parsed" /\ pf.text \in TrailingRules => pf.res.err
    /\ pf.pc = "built" /\ pf.text \in TrailingRules => pf.err

\* complete expressions are parsed to their end
C35_WholeRulesParse ==
    pf.pc = "parsed" /\ pf.text \in WholeRules =>
        ~pf.res.err /\ pf.res.pos = Len(TrimSpace(pf.text))

(***************************************************************************)
(* C36  The connection handleConnect opened to the target or to the proxy  *)
(* is closed on every path by which the handler returns.                   *)
(***************************************************************************)
\* the paths by which handleConnect returns after a connection was opened
ConnectExits == {"write", "read", "status", "hijack_unsupported", "hijack_failed", "write200"}

\* C36: when handleConnect has returned, the connection it opened to the
\* target or to the proxy is not open, whichever way it returned: the proxy
\* write or read failed, the proxy answered other than 200, hijacking was
\* unsupported or failed, the 200 line could not be written, or the tunnel
\* ended; and a connection is open only while the handler is between its
\* dial and its return.
C36_ConnectionClosed ==
    /\ sv.pc \in {"idle", "done"} => ct.conn # "open"
    /\ ct.pc = "failed" /\ ct.ioerr \in ConnectExits => ct.conn = "closed"
    /\ ct.pc = "closed" => ct.conn = "closed"
    /\ ct.conn = "open" => ct.pc \in {"write", "read", "hijack", "write200", "relay"}

\* the proxy's connection after the proxy wrote back and the read failed
C36_Witness ==
    /\ sv.pc = "done"
    /\ ct.via = "proxy"
    /\ ct.pc = "failed" /\ ct.ioerr = "read"
    /\ ct.sent # Empty
    /\ ct.conn = "closed"

(***************************************************************************)
(* C37  Server.Reload changes the routing table and the stored config,     *)
(* never the listeners, their addresses or their timeouts.                 *)
(***************************************************************************)
\* C37: no step of a reload changes the set of servers made by Start, their
\* addresses or their read, write and idle timeouts, so at all times they
\* are those of the configuration some process start has loaded, whatever
\* the configuration now stored names.
C37_ReloadKeepsListeners ==
    /\ [][servers' = servers]_vars
    /\ [](\E f \in StartFiles : servers = StartServers(LoadConfig(Files[f]).cfg))

\* a reload has stored a configuration that names other addresses and other
\* timeouts than those of the servers
C37_Witness ==
    /\ wpc = "watch"
    /\ wl.last = "ok"
    /\ routes.ptr # 1
    /\ servers # StartServers(srvConfig)
    /\ \A x \in servers :
          /\ x.addr # srvConfig.server.addr
          /\ x.readTimeout # srvConfig.server.readTimeout
          /\ x.writeTimeout # srvConfig.server.writeTimeout
          /\ x.idleTimeout # srvConfig.server.idleTimeout
    /\ Cardinality(servers) # Cardinality(StartServers(srvConfig))

(***************************************************************************)
(* C38  Handlers, reloads, Server.Stop and Watcher.Stop never deadlock:    *)
(* the locks are taken in the order Watcher.mu, Server.mu, Router.mu, and  *)
(* no handler needs a lock held by a party that waits for the handler.     *)
(***************************************************************************)
\* Router.mu is taken last: its writer holds Server.mu and Watcher.mu, whoever
\* holds Server.mu for a reload holds Watcher.mu, Stop and Reload never both
\* hold Server.mu, and while Stop holds it nobody holds Router.mu for writing
LockOrder ==
    /\ rmu.writer => ServerMuByReload
    /\ ServerMuByReload => WatcherMuHeld
    /\ ~(ServerMuByReload /\ ServerMuByStop)
    /\ ServerMuByStop => ~rmu.writer

====
